---- MODULE Spec2Model ----
(***************************************************************************)
(* The extraction scripts of scripts/extract: extract-controls.py,         *)
(* extract-entities.py and extract-metadata.py.                            *)
(*                                                                         *)
(* A Python str is a sequence of one-character strings, so that slicing,   *)
(* case conversion, comparison and regular-expression matching are         *)
(* computed character by character as the interpreter does.  A dict is the *)
(* sequence of its <<key, value>> items in insertion order, which is the   *)
(* order json.dumps writes them in.                                        *)
(***************************************************************************)
EXTENDS Integers, Sequences, FiniteSets, TLC

(***************************************************************************)
(* Characters                                                              *)
(***************************************************************************)
(* ord(): the code point of every character the documents use (ASCII). *)
OrdTbl ==
    ("\t" :> 9) @@ ("\n" :> 10) @@ (" " :> 32) @@ ("!" :> 33) @@ ("\"" :> 34) @@
    ("#" :> 35) @@ ("$" :> 36) @@ ("%" :> 37) @@ ("&" :> 38) @@ ("'" :> 39) @@
    ("(" :> 40) @@ (")" :> 41) @@ ("*" :> 42) @@ ("+" :> 43) @@ ("," :> 44) @@
    ("-" :> 45) @@ ("." :> 46) @@ ("/" :> 47) @@ ("0" :> 48) @@ ("1" :> 49) @@
    ("2" :> 50) @@ ("3" :> 51) @@ ("4" :> 52) @@ ("5" :> 53) @@ ("6" :> 54) @@
    ("7" :> 55) @@ ("8" :> 56) @@ ("9" :> 57) @@ (":" :> 58) @@ (";" :> 59) @@
    ("<" :> 60) @@ ("=" :> 61) @@ (">" :> 62) @@ ("?" :> 63) @@ ("@" :> 64) @@
    ("A" :> 65) @@ ("B" :> 66) @@ ("C" :> 67) @@ ("D" :> 68) @@ ("E" :> 69) @@
    ("F" :> 70) @@ ("G" :> 71) @@ ("H" :> 72) @@ ("I" :> 73) @@ ("J" :> 74) @@
    ("K" :> 75) @@ ("L" :> 76) @@ ("M" :> 77) @@ ("N" :> 78) @@ ("O" :> 79) @@
    ("P" :> 80) @@ ("Q" :> 81) @@ ("R" :> 82) @@ ("S" :> 83) @@ ("T" :> 84) @@
    ("U" :> 85) @@ ("V" :> 86) @@ ("W" :> 87) @@ ("X" :> 88) @@ ("Y" :> 89) @@
    ("Z" :> 90) @@ ("[" :> 91) @@ ("\\" :> 92) @@ ("]" :> 93) @@ ("^" :> 94) @@
    ("_" :> 95) @@ ("a" :> 97) @@ ("b" :> 98) @@ ("c" :> 99) @@
    ("d" :> 100) @@ ("e" :> 101) @@ ("f" :> 102) @@ ("g" :> 103) @@ ("h" :> 104) @@
    ("i" :> 105) @@ ("j" :> 106) @@ ("k" :> 107) @@ ("l" :> 108) @@ ("m" :> 109) @@
    ("n" :> 110) @@ ("o" :> 111) @@ ("p" :> 112) @@ ("q" :> 113) @@ ("r" :> 114) @@
    ("s" :> 115) @@ ("t" :> 116) @@ ("u" :> 117) @@ ("v" :> 118) @@ ("w" :> 119) @@
    ("x" :> 120) @@ ("y" :> 121) @@ ("z" :> 122) @@ ("{" :> 123) @@ ("|" :> 124) @@
    ("}" :> 125) @@ ("~" :> 126)

UpperTbl ==
    ("a" :> "A") @@ ("b" :> "B") @@ ("c" :> "C") @@ ("d" :> "D") @@ ("e" :> "E") @@
    ("f" :> "F") @@ ("g" :> "G") @@ ("h" :> "H") @@ ("i" :> "I") @@ ("j" :> "J") @@
    ("k" :> "K") @@ ("l" :> "L") @@ ("m" :> "M") @@ ("n" :> "N") @@ ("o" :> "O") @@
    ("p" :> "P") @@ ("q" :> "Q") @@ ("r" :> "R") @@ ("s" :> "S") @@ ("t" :> "T") @@
    ("u" :> "U") @@ ("v" :> "V") @@ ("w" :> "W") @@ ("x" :> "X") @@ ("y" :> "Y") @@
    ("z" :> "Z")

LowerTbl ==
    ("A" :> "a") @@ ("B" :> "b") @@ ("C" :> "c") @@ ("D" :> "d") @@ ("E" :> "e") @@
    ("F" :> "f") @@ ("G" :> "g") @@ ("H" :> "h") @@ ("I" :> "i") @@ ("J" :> "j") @@
    ("K" :> "k") @@ ("L" :> "l") @@ ("M" :> "m") @@ ("N" :> "n") @@ ("O" :> "o") @@
    ("P" :> "p") @@ ("Q" :> "q") @@ ("R" :> "r") @@ ("S" :> "s") @@ ("T" :> "t") @@
    ("U" :> "u") @@ ("V" :> "v") @@ ("W" :> "w") @@ ("X" :> "x") @@ ("Y" :> "y") @@
    ("Z" :> "z")

Digit == {"0", "1", "2", "3", "4", "5", "6", "7", "8", "9"}
UpperL == DOMAIN LowerTbl
LowerL == DOMAIN UpperTbl
Letter == UpperL \cup LowerL
(* \w of a str pattern, over ASCII *)
WordCh == Letter \cup Digit \cup {"_"}
(* \s *)
Space == {" ", "\t", "\n"}
AllCh == DOMAIN OrdTbl

UpperCh(c) == IF c \in LowerL THEN UpperTbl[c] ELSE c
LowerCh(c) == IF c \in UpperL THEN LowerTbl[c] ELSE c

(* str.upper(), str.lower() *)
Upper(s) == [i \in 1..Len(s) |-> UpperCh(s[i])]
Lower(s) == [i \in 1..Len(s) |-> LowerCh(s[i])]

(* s[a:b] of Python for 0 <= a, b <= len(s): the characters a+1 .. b *)
Slice(s, a, b) == IF b <= a THEN <<>> ELSE SubSeq(s, a + 1, b)

Min(a, b) == IF a <= b THEN a ELSE b
Max(a, b) == IF a >= b THEN a ELSE b

(* str < str: lexicographic by code point *)
RECURSIVE StrLess(_, _)
StrLess(a, b) ==
    IF Len(b) = 0 THEN FALSE
    ELSE IF Len(a) = 0 THEN TRUE
    ELSE IF Head(a) = Head(b) THEN StrLess(Tail(a), Tail(b))
    ELSE OrdTbl[Head(a)] < OrdTbl[Head(b)]

(* str.strip() *)
Strip(s) ==
    LET kept == {i \in 1..Len(s) : s[i] \notin Space}
    IN  IF kept = {} THEN <<>>
        ELSE SubSeq(s, CHOOSE i \in kept : \A j \in kept : i <= j,
                       CHOOSE i \in kept : \A j \in kept : j <= i)

(* content.split('\n'): the pieces between consecutive newlines *)
SplitLines(s) ==
    LET nl == {i \in 1..Len(s) : s[i] = "\n"}
        (* the position of the k-th newline; 0 before the first piece and *)
        (* Len(s) + 1 after the last                                      *)
        at(k) == IF k = 0 THEN 0
                 ELSE IF k > Cardinality(nl) THEN Len(s) + 1
                 ELSE CHOOSE p \in nl : Cardinality({q \in nl : q < p}) = k - 1
    IN  [k \in 1..(Cardinality(nl) + 1) |-> SubSeq(s, at(k - 1) + 1, at(k) - 1)]

(***************************************************************************)
(* Regular expressions (module re).  A pattern is a sequence of elements;  *)
(* Match tries them as re's backtracking matcher does: alternatives left   *)
(* to right, repetitions greedy, the first success wins.                   *)
(***************************************************************************)
Lit(s) == [t |-> "lit", s |-> s]
(* [set]{min,max}; max = -1 is unbounded *)
Cls(set, min, max) == [t |-> "cls", neg |-> FALSE, set |-> set, min |-> min, max |-> max]
(* [^set]{min,max} *)
NCls(set, min, max) == [t |-> "cls", neg |-> TRUE, set |-> set, min |-> min, max |-> max]
(* a|b|c *)
Alt(alts) == [t |-> "alt", alts |-> alts]
(* (?:body)? *)
Opt(body) == [t |-> "alt", alts |-> <<body, <<>>>>]
(* (?:body){min,} *)
Rep(body, min) == [t |-> "rep", body |-> body, min |-> min]
(* (body), capture group n *)
Grp(n, body) == [t |-> "grp", n |-> n, body |-> body]
WB == [t |-> "wb"]
BOL == [t |-> "bol"]
EOL == [t |-> "eol"]

(* flags: ic = re.IGNORECASE, ml = re.MULTILINE *)
Flags(ic, ml) == [ic |-> ic, ml |-> ml]

NoGroups == [n \in 1..4 |-> <<0, 0>>]
NoMatch == [ok |-> FALSE]

ChEq(a, b, fl) == a = b \/ (fl.ic /\ LowerCh(a) = LowerCh(b))
ClsHas(e, c, fl) ==
    LET in == c \in e.set \/ (fl.ic /\ (LowerCh(c) \in e.set \/ UpperCh(c) \in e.set))
    IN  in # e.neg

LitAt(s, t, pos, fl) ==
    /\ pos + Len(s) - 1 <= Len(t)
    /\ \A k \in 1..Len(s) : ChEq(s[k], t[pos + k - 1], fl)

(* the longest run of characters of class e from pos, at most e.max *)
RECURSIVE Run(_, _, _, _, _)
Run(e, t, pos, n, fl) ==
    IF (e.max >= 0 /\ n >= e.max) \/ pos + n > Len(t) THEN n
    ELSE IF ClsHas(e, t[pos + n], fl) THEN Run(e, t, pos, n + 1, fl)
    ELSE n

IsWordAt(t, i) == i >= 1 /\ i <= Len(t) /\ t[i] \in WordCh
(* \b between t[pos-1] and t[pos] *)
AtWB(t, pos) == IsWordAt(t, pos - 1) # IsWordAt(t, pos)
AtBOL(t, pos, fl) == pos = 1 \/ (fl.ml /\ t[pos - 1] = "\n")
AtEOL(t, pos, fl) ==
    \/ pos = Len(t) + 1
    \/ (pos = Len(t) /\ t[pos] = "\n")
    \/ (fl.ml /\ pos <= Len(t) /\ t[pos] = "\n")

RECURSIVE Match(_, _, _, _, _)
RECURSIVE TryLen(_, _, _, _, _, _, _)
RECURSIVE TryAlts(_, _, _, _, _, _, _)

(* Match(es, t, pos, caps, fl): the elements es against t from position pos *)
(* (1-based); [ok, end, caps], end the position after the match.            *)
Match(es, t, pos, caps, fl) ==
    IF Len(es) = 0 THEN [ok |-> TRUE, end |-> pos, caps |-> caps]
    ELSE
    LET e == Head(es)
        rest == Tail(es)
    IN  CASE e.t = "lit" ->
                IF LitAt(e.s, t, pos, fl)
                THEN Match(rest, t, pos + Len(e.s), caps, fl)
                ELSE NoMatch
          [] e.t = "cls" ->
                LET n == Run(e, t, pos, 0, fl)
                IN  IF n < e.min THEN NoMatch
                    ELSE TryLen(n, e.min, rest, t, pos, caps, fl)
          [] e.t = "alt" -> TryAlts(e.alts, 1, rest, t, pos, caps, fl)
          [] e.t = "rep" ->
                LET more == Match(e.body \o <<Rep(e.body, Max(0, e.min - 1))>> \o rest,
                                  t, pos, caps, fl)
                IN  IF more.ok THEN more
                    ELSE IF e.min = 0 THEN Match(rest, t, pos, caps, fl)
                    ELSE NoMatch
          [] e.t = "grp" ->
                Match(e.body \o <<[t |-> "endgrp", n |-> e.n, start |-> pos]>> \o rest,
                      t, pos, caps, fl)
          [] e.t = "endgrp" ->
                Match(rest, t, pos, [caps EXCEPT ![e.n] = <<e.start, pos>>], fl)
          [] e.t = "wb" -> IF AtWB(t, pos) THEN Match(rest, t, pos, caps, fl) ELSE NoMatch
          [] e.t = "bol" ->
                IF AtBOL(t, pos, fl) THEN Match(rest, t, pos, caps, fl) ELSE NoMatch
          [] e.t = "eol" ->
                IF AtEOL(t, pos, fl) THEN Match(rest, t, pos, caps, fl) ELSE NoMatch

(* greedy: the longest repetition first, then shorter ones *)
TryLen(k, min, rest, t, pos, caps, fl) ==
    LET r == Match(rest, t, pos + k, caps, fl)
    IN  IF r.ok THEN r
        ELSE IF k <= min THEN NoMatch
        ELSE TryLen(k - 1, min, rest, t, pos, caps, fl)

TryAlts(alts, i, rest, t, pos, caps, fl) ==
    IF i > Len(alts) THEN NoMatch
    ELSE LET r == Match(alts[i] \o rest, t, pos, caps, fl)
         IN  IF r.ok THEN r ELSE TryAlts(alts, i + 1, rest, t, pos, caps, fl)

(* A match object: start and end are 1-based positions, end exclusive, so  *)
(* match.start() = start - 1 and match.end() = end - 1.                    *)
MatchAt(pat, t, pos, fl) ==
    LET r == Match(pat, t, pos, NoGroups, fl)
    IN  IF r.ok THEN [ok |-> TRUE, start |-> pos, end |-> r.end, caps |-> r.caps]
        ELSE NoMatch

(* the match attempts at every position of t *)
Hits(pat, t, fl) == {p \in 1..(Len(t) + 1) : MatchAt(pat, t, p, fl).ok}
MinOf(S) == CHOOSE p \in S : \A q \in S : p <= q

(* re.search: the match at the leftmost position where one exists *)
Search(pat, t, fl) ==
    LET hits == Hits(pat, t, fl)
    IN  IF hits = {} THEN NoMatch ELSE MatchAt(pat, t, MinOf(hits), fl)

(* re.finditer: the non-overlapping matches, left to right; the scan *)
(* resumes where the last match ended (one further on after an empty *)
(* match)                                                            *)
RECURSIVE FindFrom(_, _, _, _, _)
FindFrom(pat, t, hits, pos, fl) ==
    LET later == {p \in hits : p >= pos}
    IN  IF later = {} THEN <<>>
        ELSE LET r == MatchAt(pat, t, MinOf(later), fl)
             IN  <<r>> \o FindFrom(pat, t, later,
                                   IF r.end > r.start THEN r.end ELSE r.end + 1, fl)

FindIter(pat, t, fl) == FindFrom(pat, t, Hits(pat, t, fl), 1, fl)

(* match.group(n): None is modelled by the value None *)
None == <<"None">>
Group(m, t, n) ==
    IF m.caps[n] = <<0, 0>> THEN None ELSE SubSeq(t, m.caps[n][1], m.caps[n][2] - 1)

(***************************************************************************)
(* dict: the sequence of <<key, value>> items in insertion order           *)
(***************************************************************************)
Keys(d) == [i \in 1..Len(d) |-> d[i][1]]
HasKey(d, k) == \E i \in 1..Len(d) : d[i][1] = k
Get(d, k, default) ==
    IF HasKey(d, k) THEN d[CHOOSE i \in 1..Len(d) : d[i][1] = k][2] ELSE default
(* d[k] = v: a new key goes last, an old key keeps its place *)
Put(d, k, v) ==
    IF HasKey(d, k) THEN [i \in 1..Len(d) |-> IF d[i][1] = k THEN <<k, v>> ELSE d[i]]
    ELSE Append(d, <<k, v>>)

(* sorted(xs) for a list of str: insertion sort, stable *)
RECURSIVE InsertSorted(_, _)
InsertSorted(x, xs) ==
    IF Len(xs) = 0 THEN <<x>>
    ELSE IF StrLess(x, Head(xs)) THEN <<x>> \o xs
    ELSE <<Head(xs)>> \o InsertSorted(x, Tail(xs))
(* a slip: the list is written as it was built *)
SortedStrs_AsIs(xs) == xs

RECURSIVE SortedStrs(_)
SortedStrs(xs) ==
    IF Len(xs) = 0 THEN <<>>
    ELSE InsertSorted(xs[Len(xs)], SortedStrs(SubSeq(xs, 1, Len(xs) - 1)))

(* sorted(d.items()): by key, the keys of a dict being distinct *)
SortedItems(d) ==
    LET ks == SortedStrs(Keys(d))
    IN  [i \in 1..Len(ks) |-> <<ks[i], Get(d, ks[i], None)>>]

(* list(set(xs)) has no order of its own; the distinct elements of xs *)
SetOf(xs) == {xs[i] : i \in 1..Len(xs)}

IsSortedStrs(xs) == \A i \in 1..(Len(xs) - 1) : StrLess(xs[i], xs[i + 1])

(***************************************************************************)
(* The output tree: <output_dir>/<tool>/markdown/<name>.  A file is a      *)
(* record [name, tool, data]; data is the text read_text returns, or       *)
(* ReadError when read_text raises.                                        *)
(***************************************************************************)
ReadError == <<"ReadError">>

Pandoc == <<"p", "a", "n", "d", "o", "c">>
(* a slip: the tools are taken in the order of their names *)
TOOLS_ByName == <<<<"d", "o", "c", "l", "i", "n", "g">>, <<"m", "a", "r", "k", "i", "t", "d",
      "o", "w", "n">>, Pandoc>>

(* for tool in ['pandoc', 'markitdown', 'docling'] *)
TOOLS == <<Pandoc, <<"m", "a", "r", "k", "i", "t", "d", "o", "w", "n">>, <<"d", "o", "c", "l",
      "i", "n", "g">>>>

(* str(filepath), relative to the output directory *)
PathStr(filepath) ==
    filepath.tool \o <<"/", "m", "a", "r", "k", "d", "o", "w", "n", "/">> \o filepath.name

(***************************************************************************)
(* extract-controls.py                                                     *)
(***************************************************************************)
\* a slip: the enhancement group left out, r'\b([A-Z]{2})-(\d{1,2})(?:\.([a-z]))?'
CONTROL_PATTERN_NoEnhancement ==
    << WB,
       Grp(1, <<Cls(UpperL, 2, 2)>>),
       Lit(<<"-">>),
       Grp(2, <<Cls(Digit, 1, 2)>>),
       Opt(<<Lit(<<".">>), Grp(4, <<Cls(LowerL, 1, 1)>>)>>) >>

\* r'\b([A-Z]{2})-(\d{1,2})(?:\((\d+)\))?(?:\.([a-z]))?', re.IGNORECASE
CONTROL_PATTERN ==
    << WB,
       Grp(1, <<Cls(UpperL, 2, 2)>>),
       Lit(<<"-">>),
       Grp(2, <<Cls(Digit, 1, 2)>>),
       Opt(<<Lit(<<"(">>), Grp(3, <<Cls(Digit, 1, -1)>>), Lit(<<")">>)>>),
       Opt(<<Lit(<<".">>), Grp(4, <<Cls(LowerL, 1, 1)>>)>>) >>

CONTROL_FAMILIES ==
    (<<"A", "C">> :> "Access Control") @@
    (<<"A", "T">> :> "Awareness and Training") @@
    (<<"A", "U">> :> "Audit and Accountability") @@
    (<<"C", "A">> :> "Assessment, Authorization, and Monitoring") @@
    (<<"C", "M">> :> "Configuration Management") @@
    (<<"C", "P">> :> "Contingency Planning") @@
    (<<"I", "A">> :> "Identification and Authentication") @@
    (<<"I", "R">> :> "Incident Response") @@
    (<<"M", "A">> :> "Maintenance") @@
    (<<"M", "P">> :> "Media Protection") @@
    (<<"P", "E">> :> "Physical and Environmental Protection") @@
    (<<"P", "L">> :> "Planning") @@
    (<<"P", "M">> :> "Program Management") @@
    (<<"P", "S">> :> "Personnel Security") @@
    (<<"P", "T">> :> "PII Processing and Transparency") @@
    (<<"R", "A">> :> "Risk Assessment") @@
    (<<"S", "A">> :> "System and Services Acquisition") @@
    (<<"S", "C">> :> "System and Communications Protection") @@
    (<<"S", "I">> :> "System and Information Integrity") @@
    (<<"S", "R">> :> "Supply Chain Risk Management")

(* `if x:` for x a str or None *)
Truthy(x) == x # None /\ Len(x) > 0

(* a slip: the part keeps the case it is written in *)
ControlId_KeepCase(family, number, enhancement, part) ==
    family \o <<"-">> \o number
      \o (IF Truthy(enhancement) THEN <<"(">> \o enhancement \o <<")">> ELSE <<>>)
      \o (IF Truthy(part) THEN <<".">> \o part ELSE <<>>)

(* lines 70-80: the control ID of one match *)
ControlId(family, number, enhancement, part) ==
    family \o <<"-">> \o number
      \o (IF Truthy(enhancement) THEN <<"(">> \o enhancement \o <<")">> ELSE <<>>)
      \o (IF Truthy(part) THEN <<".">> \o Lower(part) ELSE <<>>)

(* a slip: the window is 50 characters to either side *)
ControlRecord_EvenWindow(match, line, line_num, filepath, tool) ==
    LET family == Upper(Group(match, line, 1))
        number == Group(match, line, 2)
        enhancement == Group(match, line, 3)
        part == Group(match, line, 4)
        start == Max(0, (match.start - 1) - 50)
        end == Min(Len(line), (match.end - 1) + 50)
    IN  [control_id |-> ControlId(family, number, enhancement, part),
         control_family |-> family,
         control_family_name |->
            IF family \in DOMAIN CONTROL_FAMILIES THEN CONTROL_FAMILIES[family]
            ELSE "Unknown",
         base_control |-> family \o <<"-">> \o number,
         has_enhancement |-> enhancement # None,
         enhancement_number |-> enhancement,
         source_document |-> filepath.name,
         source_path |-> PathStr(filepath),
         conversion_tool |-> tool,
         source_location |-> [line |-> line_num, column |-> match.start - 1],
         context_snippet |-> Strip(Slice(line, start, end))]

(* lines 70-102: the record appended for one match on one line *)
ControlRecord(match, line, line_num, filepath, tool) ==
    LET family == Upper(Group(match, line, 1))
        number == Group(match, line, 2)
        enhancement == Group(match, line, 3)
        part == Group(match, line, 4)
        start == Max(0, (match.start - 1) - 50)
        end == Min(Len(line), (match.end - 1) + 100)
    IN  [control_id |-> ControlId(family, number, enhancement, part),
         control_family |-> family,
         control_family_name |->
            IF family \in DOMAIN CONTROL_FAMILIES THEN CONTROL_FAMILIES[family]
            ELSE "Unknown",
         base_control |-> family \o <<"-">> \o number,
         has_enhancement |-> enhancement # None,
         enhancement_number |-> enhancement,
         source_document |-> filepath.name,
         source_path |-> PathStr(filepath),
         conversion_tool |-> tool,
         source_location |-> [line |-> line_num, column |-> match.start - 1],
         context_snippet |-> Strip(Slice(line, start, end))]

(* a slip: a control_id is recorded once per line *)
ControlsOfLine_OncePerId(line, line_num, filepath, tool) ==
    LET ms == FindIter(CONTROL_PATTERN, line, Flags(TRUE, FALSE))
        rs == [k \in 1..Len(ms) |-> ControlRecord(ms[k], line, line_num, filepath, tool)]
        isNew(k) == \A j \in 1..(k - 1) : rs[j].control_id # rs[k].control_id
    IN  [i \in 1..Cardinality({k \in 1..Len(rs) : isNew(k)}) |->
            rs[CHOOSE k \in 1..Len(rs) :
                  isNew(k) /\ Cardinality({j \in 1..k : isNew(j)}) = i]]

(* lines 68-102 for one line *)
ControlsOfLine(line, line_num, filepath, tool) ==
    LET ms == FindIter(CONTROL_PATTERN, line, Flags(TRUE, FALSE))
    IN  [k \in 1..Len(ms) |-> ControlRecord(ms[k], line, line_num, filepath, tool)]

RECURSIVE ControlsOfLines(_, _, _, _)
ControlsOfLines(lines, line_num, filepath, tool) ==
    IF line_num > Len(lines) THEN <<>>
    ELSE ControlsOfLine(lines[line_num], line_num, filepath, tool)
           \o ControlsOfLines(lines, line_num + 1, filepath, tool)

extract_controls_from_file(filepath, tool) ==
    IF filepath.data = ReadError THEN <<>>
    ELSE ControlsOfLines(SplitLines(filepath.data), 1, filepath, tool)

(***************************************************************************)
(* extract-entities.py                                                     *)
(***************************************************************************)
(* (a|b|c) of literal alternatives *)
AltL(words) == Alt([i \in 1..Len(words) |-> <<Lit(words[i])>>])
\* r'\b(' body ')\b'
Bounded(body) == <<WB, Grp(1, body), WB>>

(* ENTITY_PATTERNS.items(): the categories in the order the dict lists them *)
ENTITY_PATTERNS ==
    <<
      <<<<"r", "o", "l", "e">>,
          << \* r'\b(CISO|CTO|CIO|CEO|CFO)\b'
             Bounded(<<AltL(<<<<"C", "I", "S", "O">>, <<"C", "T", "O">>, <<"C", "I", "O">>,
                   <<"C", "E", "O">>, <<"C", "F", "O">>>>)>>),
             \* r'\b(Chief (?:Information |Security |Technology |)Officer)\b'
             Bounded(<<Lit(<<"C", "h", "i", "e", "f", " ">>),
                       AltL(<<<<"I", "n", "f", "o", "r", "m", "a", "t", "i", "o", "n", " ">>,
                             <<"S", "e", "c", "u", "r", "i", "t", "y", " ">>, <<"T", "e", "c",
                             "h", "n", "o", "l", "o", "g", "y", " ">>, <<>> >>),
                       Lit(<<"O", "f", "f", "i", "c", "e", "r">>)>>),
             \* r'\b(System Administrator|SysAdmin|Admin)\b'
             Bounded(<<AltL(<<<<"S", "y", "s", "t", "e", "m", " ", "A", "d", "m", "i", "n",
                   "i", "s", "t", "r", "a", "t", "o", "r">>, <<"S", "y", "s", "A", "d", "m",
                   "i", "n">>, <<"A", "d", "m", "i", "n">>>>)>>),
             \* r'\b(Security (?:Analyst|Engineer|Architect|Manager))\b'
             Bounded(<<Lit(<<"S", "e", "c", "u", "r", "i", "t", "y", " ">>),
                       AltL(<<<<"A", "n", "a", "l", "y", "s", "t">>, <<"E", "n", "g", "i", "n",
                             "e", "e", "r">>, <<"A", "r", "c", "h", "i", "t", "e", "c", "t">>,
                             <<"M", "a", "n", "a", "g", "e", "r">>>>)>>),
             \* r'\b(Authorizing Official|AO)\b'
             Bounded(<<AltL(<<<<"A", "u", "t", "h", "o", "r", "i", "z", "i", "n", "g", " ",
                   "O", "f", "f", "i", "c", "i", "a", "l">>, <<"A", "O">>>>)>>),
             \* r'\b(Information System Security (?:Officer|Manager)|ISSO|ISSM)\b'
             Bounded(<<Alt(<< <<Lit(<<"I", "n", "f", "o", "r", "m", "a", "t", "i", "o", "n",
                   " ", "S", "y", "s", "t", "e", "m", " ", "S", "e", "c", "u", "r", "i", "t",
                   "y", " ">>),
                                AltL(<<<<"O", "f", "f", "i", "c", "e", "r">>, <<"M", "a", "n",
                                      "a", "g", "e", "r">>>>)>>,
                              <<Lit(<<"I", "S", "S", "O">>)>>,
                              <<Lit(<<"I", "S", "S", "M">>)>> >>)>>),
             \* r'\b(SOC (?:Analyst|Manager|Team))\b'
             Bounded(<<Lit(<<"S", "O", "C", " ">>), AltL(<<<<"A", "n", "a", "l", "y", "s",
                   "t">>, <<"M", "a", "n", "a", "g", "e", "r">>, <<"T", "e", "a", "m">>>>)>>),
             \* r'\b(Incident Response Team|IRT)\b'
             Bounded(<<AltL(<<<<"I", "n", "c", "i", "d", "e", "n", "t", " ", "R", "e", "s",
                   "p", "o", "n", "s", "e", " ", "T", "e", "a", "m">>, <<"I", "R",
                   "T">>>>)>>) >> >>,
      <<<<"o", "r", "g", "a", "n", "i", "z", "a", "t", "i", "o", "n">>,
          << \* r'\b(US-CERT|CISA|FedRAMP|GSA|NIST|OMB|DHS)\b'
             Bounded(<<AltL(<<<<"U", "S", "-", "C", "E", "R", "T">>, <<"C", "I", "S", "A">>,
                   <<"F", "e", "d", "R", "A", "M", "P">>, <<"G", "S", "A">>, <<"N", "I", "S",
                   "T">>, <<"O", "M", "B">>,
                              <<"D", "H", "S">>>>)>>),
             \* r'\b(Security Operations Center|SOC)\b'
             Bounded(<<AltL(<<<<"S", "e", "c", "u", "r", "i", "t", "y", " ", "O", "p", "e",
                   "r", "a", "t", "i", "o", "n", "s", " ", "C", "e", "n", "t", "e", "r">>,
                   <<"S", "O", "C">>>>)>>),
             \* r'\b(PMO|Program Management Office)\b'
             Bounded(<<AltL(<<<<"P", "M", "O">>, <<"P", "r", "o", "g", "r", "a", "m", " ", "M",
                   "a", "n", "a", "g", "e", "m", "e", "n", "t", " ", "O", "f", "f", "i", "c",
                   "e">>>>)>>) >> >>,
      <<<<"s", "y", "s", "t", "e", "m">>,
          << \* r'\b(AWS|Azure|GCP|Google Cloud)\b'
             Bounded(<<AltL(<<<<"A", "W", "S">>, <<"A", "z", "u", "r", "e">>, <<"G", "C",
                   "P">>, <<"G", "o", "o", "g", "l", "e", " ", "C", "l", "o", "u", "d">>>>)>>),
             \* r'\b(Splunk|CloudWatch|GuardDuty)\b'
             Bounded(<<AltL(<<<<"S", "p", "l", "u", "n", "k">>, <<"C", "l", "o", "u", "d", "W",
                   "a", "t", "c", "h">>, <<"G", "u", "a", "r", "d", "D", "u", "t", "y">>>>)>>),
             \* r'\b(Okta|Active Directory|AD|LDAP)\b'
             Bounded(<<AltL(<<<<"O", "k", "t", "a">>, <<"A", "c", "t", "i", "v", "e", " ", "D",
                   "i", "r", "e", "c", "t", "o", "r", "y">>, <<"A", "D">>, <<"L", "D", "A",
                   "P">>>>)>>),
             \* r'\b(ServiceNow|Jira|GitHub|GitLab)\b'
             Bounded(<<AltL(<<<<"S", "e", "r", "v", "i", "c", "e", "N", "o", "w">>, <<"J", "i",
                   "r", "a">>, <<"G", "i", "t", "H", "u", "b">>, <<"G", "i", "t", "L", "a",
                   "b">>>>)>>),
             \* r'\b(Terraform|Ansible|Kubernetes|Docker)\b'
             Bounded(<<AltL(<<<<"T", "e", "r", "r", "a", "f", "o", "r", "m">>, <<"A", "n", "s",
                   "i", "b", "l", "e">>, <<"K", "u", "b", "e", "r", "n", "e", "t", "e", "s">>,
                   <<"D", "o", "c", "k", "e", "r">>>>)>>),
             \* r'\b(Qualys|Nessus|Tenable)\b'
             Bounded(<<AltL(<<<<"Q", "u", "a", "l", "y", "s">>, <<"N", "e", "s", "s", "u",
                   "s">>, <<"T", "e", "n", "a", "b", "l", "e">>>>)>>) >> >>,
      <<<<"s", "t", "a", "n", "d", "a", "r", "d">>,
          << \* r'\b(NIST (?:SP )?800-\d+[A-Z]?)\b'
             Bounded(<<Lit(<<"N", "I", "S", "T", " ">>), Opt(<<Lit(<<"S", "P", " ">>)>>),
                   Lit(<<"8", "0", "0", "-">>),
                       Cls(Digit, 1, -1), Cls(UpperL, 0, 1)>>),
             \* r'\b(FedRAMP (?:Moderate|High|Low))\b'
             Bounded(<<Lit(<<"F", "e", "d", "R", "A", "M", "P", " ">>), AltL(<<<<"M", "o", "d",
                   "e", "r", "a", "t", "e">>, <<"H", "i", "g", "h">>, <<"L", "o", "w">>>>)>>),
             \* r'\b(FIPS (?:140-[23]|199|200))\b'
             Bounded(<<Lit(<<"F", "I", "P", "S", " ">>),
                       Alt(<< <<Lit(<<"1", "4", "0", "-">>), Cls({"2", "3"}, 1, 1)>>,
                              <<Lit(<<"1", "9", "9">>)>>,
                              <<Lit(<<"2", "0", "0">>)>> >>)>>),
             \* r'\b(ISO (?:27001|27002|27017|27018))\b'
             Bounded(<<Lit(<<"I", "S", "O", " ">>), AltL(<<<<"2", "7", "0", "0", "1">>, <<"2",
                   "7", "0", "0", "2">>, <<"2", "7", "0", "1", "7">>, <<"2", "7", "0", "1",
                   "8">>>>)>>),
             \* r'\b(SOC [12])\b'
             Bounded(<<Lit(<<"S", "O", "C", " ">>), Cls({"1", "2"}, 1, 1)>>),
             \* r'\b(CIS Benchmark)\b'
             Bounded(<<Lit(<<"C", "I", "S", " ", "B", "e", "n", "c", "h", "m", "a", "r",
                   "k">>)>>),
             \* r'\b(PCI[- ]DSS)\b'
             Bounded(<<Lit(<<"P", "C", "I">>), Cls({"-", " "}, 1, 1), Lit(<<"D", "S", "S">>)>>),
             \* r'\b(HIPAA|GDPR|CCPA)\b'
             Bounded(<<AltL(<<<<"H", "I", "P", "A", "A">>, <<"G", "D", "P", "R">>, <<"C", "C",
                   "P", "A">>>>)>>) >> >>,
      <<<<"c", "r", "y", "p", "t", "o", "_", "m", "o", "d", "u", "l", "e">>,
          << \* r'\b(FIPS 140-[23] (?:Level [1-4]|validated))\b'
             Bounded(<<Lit(<<"F", "I", "P", "S", " ", "1", "4", "0", "-">>), Cls({"2", "3"}, 1,
                   1), Lit(<<" ">>),
                       Alt(<< <<Lit(<<"L", "e", "v", "e", "l", " ">>), Cls({"1", "2", "3",
                             "4"}, 1, 1)>>,
                              <<Lit(<<"v", "a", "l", "i", "d", "a", "t", "e", "d">>)>> >>)>>),
             \* r'\b(OpenSSL|BoringSSL|AWS[- ]?KMS)\b'
             Bounded(<<Alt(<< <<Lit(<<"O", "p", "e", "n", "S", "S", "L">>)>>,
                              <<Lit(<<"B", "o", "r", "i", "n", "g", "S", "S", "L">>)>>,
                              <<Lit(<<"A", "W", "S">>), Cls({"-", " "}, 0, 1), Lit(<<"K", "M",
                                    "S">>)>> >>)>>),
             \* r'\b(TLS [0-9.]+|SSL)\b'
             Bounded(<<Alt(<< <<Lit(<<"T", "L", "S", " ">>), Cls(Digit \cup {"."}, 1, -1)>>,
                              <<Lit(<<"S", "S", "L">>)>> >>)>>),
             \* r'\b(AES-(?:128|256)|RSA-(?:2048|4096))\b'
             Bounded(<<Alt(<< <<Lit(<<"A", "E", "S", "-">>), AltL(<<<<"1", "2", "8">>, <<"2",
                   "5", "6">>>>)>>,
                              <<Lit(<<"R", "S", "A", "-">>), AltL(<<<<"2", "0", "4", "8">>,
                                    <<"4", "0", "9", "6">>>>)>> >>)>>) >> >>,
      <<<<"e", "m", "a", "i", "l">>,
          << \* r'\b([a-zA-Z0-9._%+-]+@[a-zA-Z0-9.-]+\.[a-zA-Z]{2,})\b'
             Bounded(<<Cls(Letter \cup Digit \cup {".", "_", "%", "+", "-"}, 1, -1),
                   Lit(<<"@">>),
                       Cls(Letter \cup Digit \cup {".", "-"}, 1, -1), Lit(<<".">>), Cls(Letter,
                             2, -1)>>) >> >>,
      <<<<"u", "r", "l">>,
          << \* r'\b(https?://[^\s\)]+)\b'
             Bounded(<<Lit(<<"h", "t", "t", "p">>), Cls({"s"}, 0, 1), Lit(<<":", "/", "/">>),
                       NCls(Space \cup {")"}, 1, -1)>>) >> >>,
      <<<<"t", "i", "m", "e", "l", "i", "n", "e">>,
          << \* r'\b(within (?:\d+|one|two|three|twenty-four) (?:hours?|days?|weeks?|months?))\b'
             Bounded(<<Lit(<<"w", "i", "t", "h", "i", "n", " ">>),
                       Alt(<< <<Cls(Digit, 1, -1)>>, <<Lit(<<"o", "n", "e">>)>>, <<Lit(<<"t",
                             "w", "o">>)>>,
                              <<Lit(<<"t", "h", "r", "e", "e">>)>>, <<Lit(<<"t", "w", "e", "n",
                                    "t", "y", "-", "f", "o", "u", "r">>)>> >>),
                       Lit(<<" ">>),
                       Alt(<< <<Lit(<<"h", "o", "u", "r">>), Cls({"s"}, 0, 1)>>,
                              <<Lit(<<"d", "a", "y">>), Cls({"s"}, 0, 1)>>,
                              <<Lit(<<"w", "e", "e", "k">>), Cls({"s"}, 0, 1)>>,
                              <<Lit(<<"m", "o", "n", "t", "h">>), Cls({"s"}, 0, 1)>> >>)>>),
             \* r'\b((?:\d+|quarterly|annually|monthly|weekly|daily) (?:review|audit|assessment))\b'
             Bounded(<<Alt(<< <<Cls(Digit, 1, -1)>>, <<Lit(<<"q", "u", "a", "r", "t", "e", "r",
                   "l", "y">>)>>,
                              <<Lit(<<"a", "n", "n", "u", "a", "l", "l", "y">>)>>, <<Lit(<<"m",
                                    "o", "n", "t", "h", "l", "y">>)>>, <<Lit(<<"w", "e", "e",
                                    "k", "l", "y">>)>>,
                              <<Lit(<<"d", "a", "i", "l", "y">>)>> >>),
                       Lit(<<" ">>),
                       AltL(<<<<"r", "e", "v", "i", "e", "w">>, <<"a", "u", "d", "i", "t">>,
                             <<"a", "s", "s", "e", "s", "s", "m", "e", "n", "t">>>>)>>) >> >> >>

(* line 95: the categories whose values are case-normalized *)
NORMALIZED_TYPES == {<<"r", "o", "l", "e">>, <<"o", "r", "g", "a", "n", "i", "z", "a", "t",
      "i", "o", "n">>, <<"s", "y", "s", "t", "e", "m">>, <<"s", "t", "a", "n", "d", "a", "r",
      "d">>}

(* str.title(): a letter after a letter is lower-cased, any other letter upper-cased *)
Title(s) ==
    [i \in 1..Len(s) |->
        IF i > 1 /\ s[i - 1] \in Letter THEN LowerCh(s[i]) ELSE UpperCh(s[i])]

(* a slip: every category keeps the trimmed original casing *)
Normalize_KeepCase(entity_type, value) == Strip(value)

(* lines 94-96 *)
Normalize(entity_type, value) ==
    LET normalized == Strip(value)
    IN  IF entity_type \in NORMALIZED_TYPES
        THEN IF Len(normalized) <= 5 THEN Upper(normalized) ELSE Title(normalized)
        ELSE normalized

(* str.replace('\n', ' ') *)
FlattenNewlines(s) == [i \in 1..Len(s) |-> IF s[i] = "\n" THEN " " ELSE s[i]]

(* lines 99-101 *)
EntityContext(match, content) ==
    LET start == Max(0, (match.start - 1) - 30)
        end == Min(Len(content), (match.end - 1) + 30)
    IN  Strip(FlattenNewlines(Slice(content, start, end)))

(* a slip: a later match replaces the contexts collected so far *)
RECURSIVE AddMatches_Overwrite(_, _, _, _, _)
AddMatches_Overwrite(found_values, ms, k, entity_type, content) ==
    IF k > Len(ms) THEN found_values
    ELSE LET normalized == Normalize(entity_type, Group(ms[k], content, 1))
             context == EntityContext(ms[k], content)
         IN  AddMatches_Overwrite(Put(found_values, normalized, <<context>>),
                                  ms, k + 1, entity_type, content)

(* lines 91-103: the matches of one pattern folded into found_values *)
RECURSIVE AddMatches(_, _, _, _, _)
AddMatches(found_values, ms, k, entity_type, content) ==
    IF k > Len(ms) THEN found_values
    ELSE LET normalized == Normalize(entity_type, Group(ms[k], content, 1))
             context == EntityContext(ms[k], content)
         IN  AddMatches(Put(found_values, normalized,
                            Append(Get(found_values, normalized, <<>>), context)),
                        ms, k + 1, entity_type, content)

(* lines 90-103: the patterns of one category, in list order *)
RECURSIVE FoundValues(_, _, _, _, _)
FoundValues(found_values, patterns, p, entity_type, content) ==
    IF p > Len(patterns) THEN found_values
    ELSE FoundValues(
            AddMatches(found_values, FindIter(patterns[p], content, Flags(TRUE, FALSE)),
                       1, entity_type, content),
            patterns, p + 1, entity_type, content)

(* a slip: contexts[-3:], the last three contexts are kept *)
EntityRecords_LastThree(found_values, entity_type, filepath, tool) ==
    [i \in 1..Len(found_values) |->
        [entity_type |-> entity_type,
         value |-> found_values[i][1],
         occurrences |-> Len(found_values[i][2]),
         source_document |-> filepath.name,
         conversion_tool |-> tool,
         sample_contexts |-> SubSeq(found_values[i][2],
                                    Max(1, Len(found_values[i][2]) - 2),
                                    Len(found_values[i][2]))]]

(* lines 106-114: one record per key of found_values *)
EntityRecords(found_values, entity_type, filepath, tool) ==
    [i \in 1..Len(found_values) |->
        [entity_type |-> entity_type,
         value |-> found_values[i][1],
         occurrences |-> Len(found_values[i][2]),
         source_document |-> filepath.name,
         conversion_tool |-> tool,
         sample_contexts |-> SubSeq(found_values[i][2], 1, Min(3, Len(found_values[i][2])))]]

RECURSIVE EntitiesOfTypes(_, _, _)
EntitiesOfTypes(t, filepath, tool) ==
    IF t > Len(ENTITY_PATTERNS) THEN <<>>
    ELSE EntityRecords(FoundValues(<<>>, ENTITY_PATTERNS[t][2], 1, ENTITY_PATTERNS[t][1],
                                   filepath.data),
                       ENTITY_PATTERNS[t][1], filepath, tool)
           \o EntitiesOfTypes(t + 1, filepath, tool)

extract_entities_from_file(filepath, tool) ==
    IF filepath.data = ReadError THEN <<>>
    ELSE EntitiesOfTypes(1, filepath, tool)

(***************************************************************************)
(* extract-metadata.py                                                     *)
(***************************************************************************)

TITLE_PATTERNS ==
    << \* r'^#\s+(.+)$'
       <<BOL, Lit(<<"#">>), Cls(Space, 1, -1), Grp(1, <<NCls({"\n"}, 1, -1)>>), EOL>>,
       \* r'^(.+)\n={3,}$'
       <<BOL, Grp(1, <<NCls({"\n"}, 1, -1)>>), Lit(<<"\n">>), Cls({"="}, 3, -1), EOL>> >>

\* [0-9]+(?:\.[0-9]+){min,}
DottedNumber(min) == <<Cls(Digit, 1, -1), Rep(<<Lit(<<".">>), Cls(Digit, 1, -1)>>, min)>>

VERSION_PATTERNS ==
    << \* r'[Vv]ersion[:\s]+([0-9]+(?:\.[0-9]+)*)'
       <<Cls({"V", "v"}, 1, 1), Lit(<<"e", "r", "s", "i", "o", "n">>), Cls({":"} \cup Space, 1,
             -1),
         Grp(1, DottedNumber(0))>>,
       \* r'[Vv]\.?\s*([0-9]+(?:\.[0-9]+)+)'
       <<Cls({"V", "v"}, 1, 1), Cls({"."}, 0, 1), Cls(Space, 0, -1),
         Grp(1, DottedNumber(1))>>,
       \* r'[Rr]evision[:\s]+([0-9]+(?:\.[0-9]+)*)'
       <<Cls({"R", "r"}, 1, 1), Lit(<<"e", "v", "i", "s", "i", "o", "n">>),
             Cls({":"} \cup Space, 1, -1),
         Grp(1, DottedNumber(0))>> >>

\* \d{4}-\d{2}-\d{2}

DATE_PATTERNS ==
    << \* r'(?:Effective|Date|Updated|Revised)[:\s]+(\d{4}-\d{2}-\d{2})'
       <<AltL(<<<<"E", "f", "f", "e", "c", "t", "i", "v", "e">>, <<"D", "a", "t", "e">>, <<"U",
             "p", "d", "a", "t", "e", "d">>, <<"R", "e", "v", "i", "s", "e", "d">>>>),
         Cls({":"} \cup Space, 1, -1), Grp(1, <<Cls(Digit, 4, 4), Lit(<<"-">>), Cls(Digit, 2,
               2), Lit(<<"-">>),
                  Cls(Digit, 2, 2)>>)>>,
       \* r'(\d{4}-\d{2}-\d{2})'
       <<Grp(1, <<Cls(Digit, 4, 4), Lit(<<"-">>), Cls(Digit, 2, 2), Lit(<<"-">>),
                  Cls(Digit, 2, 2)>>)>>,
       \* r'(\d{1,2}/\d{1,2}/\d{4})'
       <<Grp(1, <<Cls(Digit, 1, 2), Lit(<<"/">>), Cls(Digit, 1, 2), Lit(<<"/">>),
                  Cls(Digit, 4, 4)>>)>>,
       \* r'([A-Z][a-z]+ \d{1,2},? \d{4})'
       <<Grp(1, <<Cls(UpperL, 1, 1), Cls(LowerL, 1, -1), Lit(<<" ">>), Cls(Digit, 1, 2),
                  Cls({","}, 0, 1), Lit(<<" ">>), Cls(Digit, 4, 4)>>)>> >>

(* DOCUMENT_TYPE_KEYWORDS.items(): the types in the order the dict lists them *)
DOCUMENT_TYPE_KEYWORDS ==
    << <<<<"p", "o", "l", "i", "c", "y">>, <<<<"p", "o", "l", "i", "c", "y">>, <<"p", "o", "l",
          "i", "c", "i", "e", "s">>>> >>,
       <<<<"p", "r", "o", "c", "e", "d", "u", "r", "e">>, <<<<"p", "r", "o", "c", "e", "d",
             "u", "r", "e">>, <<"p", "r", "o", "c", "e", "s", "s">>, <<"w", "o", "r", "k", "f",
             "l", "o", "w">>>> >>,
       <<<<"s", "s", "p">>, <<<<"s", "y", "s", "t", "e", "m", " ", "s", "e", "c", "u", "r",
             "i", "t", "y", " ", "p", "l", "a", "n">>, <<"s", "s", "p">>, <<"s", "e", "c", "u",
             "r", "i", "t", "y", " ", "p", "l", "a", "n">>>> >>,
       <<<<"p", "o", "a", "m">>, <<<<"p", "l", "a", "n", " ", "o", "f", " ", "a", "c", "t",
             "i", "o", "n">>, <<"p", "o", "a", "&", "m">>, <<"p", "o", "a", "m">>, <<"m", "i",
             "l", "e", "s", "t", "o", "n", "e", "s">>>> >>,
       <<<<"s", "a", "r">>, <<<<"s", "e", "c", "u", "r", "i", "t", "y", " ", "a", "s", "s",
             "e", "s", "s", "m", "e", "n", "t">>, <<"s", "a", "r">>, <<"a", "s", "s", "e", "s",
             "s", "m", "e", "n", "t", " ", "r", "e", "p", "o", "r", "t">>>> >>,
       <<<<"p", "l", "a", "n">>, <<<<"p", "l", "a", "n">>, <<"p", "l", "a", "n", "n", "i", "n",
             "g">>>> >>,
       <<<<"g", "u", "i", "d", "e">>, <<<<"g", "u", "i", "d", "e">>, <<"g", "u", "i", "d", "a",
             "n", "c", "e">>, <<"h", "a", "n", "d", "b", "o", "o", "k">>>> >> >>

\* CONTROL_PATTERN of extract-metadata.py: r'\b([A-Z]{2})-\d+', case-sensitive
META_CONTROL_PATTERN ==
    <<WB, Grp(1, <<Cls(UpperL, 2, 2)>>), Lit(<<"-">>), Cls(Digit, 1, -1)>>

NoFlags == Flags(FALSE, FALSE)

(* `kw in content_lower` *)
Contains(text, kw) == \E p \in 1..(Len(text) - Len(kw) + 1) : LitAt(kw, text, p, NoFlags)

(* lines 81-88: the title search over lines[:20]; None when no line sets it. *)
(* A line is tried against the patterns in order and the first pattern that  *)
(* matches sets the title; the search goes on to the next line only while    *)
(* the title is falsy (None or empty).                                       *)
TitleOfLine(line) ==
    LET m1 == MatchAt(TITLE_PATTERNS[1], line, 1, Flags(FALSE, TRUE))
        m2 == MatchAt(TITLE_PATTERNS[2], line, 1, Flags(FALSE, TRUE))
    IN  IF m1.ok THEN Strip(Group(m1, line, 1))
        ELSE IF m2.ok THEN Strip(Group(m2, line, 1))
        ELSE None

RECURSIVE TitleFrom(_, _, _)
TitleFrom(lines, i, title) ==
    IF i > Min(Len(lines), 20) THEN title
    ELSE LET found == TitleOfLine(lines[i])
             now == IF found # None THEN found ELSE title
         IN  IF Truthy(now) THEN now ELSE TitleFrom(lines, i + 1, now)


(* a slip: the match that stands first in the text wins, whatever its pattern *)
VersionFrom_ByPosition(content, p) ==
    LET ms == [k \in p..Len(VERSION_PATTERNS) |->
                  Search(VERSION_PATTERNS[k], content, NoFlags)]
        found == {k \in p..Len(VERSION_PATTERNS) : ms[k].ok}
    IN  IF found = {} THEN None
        ELSE LET k == CHOOSE i \in found : \A j \in found : ms[i].start <= ms[j].start
             IN  Group(ms[k], content, 1)

(* lines 91-95 *)
RECURSIVE VersionFrom(_, _)
VersionFrom(content, p) ==
    IF p > Len(VERSION_PATTERNS) THEN None
    ELSE LET m == Search(VERSION_PATTERNS[p], content, NoFlags)
         IN  IF m.ok THEN Group(m, content, 1) ELSE VersionFrom(content, p + 1)


InList(x, xs) == \E i \in 1..Len(xs) : xs[i] = x

(* a slip: the scan of a pattern goes on after the fifth date *)
RECURSIVE ScanDates_NoBreak(_, _, _, _)
ScanDates_NoBreak(dates_found, ms, k, content) ==
    IF k > Len(ms) THEN dates_found
    ELSE LET date_str == Group(ms[k], content, 1)
         IN  IF ~InList(date_str, dates_found)
             THEN ScanDates_NoBreak(Append(dates_found, date_str), ms, k + 1, content)
             ELSE ScanDates_NoBreak(dates_found, ms, k + 1, content)

(* a slip: every match is appended, seen before or not *)
RECURSIVE ScanDates_NoDedup(_, _, _, _)
ScanDates_NoDedup(dates_found, ms, k, content) ==
    IF k > Len(ms) THEN dates_found
    ELSE LET added == Append(dates_found, Group(ms[k], content, 1))
         IN  IF Len(added) >= 5 THEN added
             ELSE ScanDates_NoDedup(added, ms, k + 1, content)

(* lines 99-104: the matches ms of one pattern, from the k-th on; the break *)
(* leaves this inner loop only                                              *)
RECURSIVE ScanDates(_, _, _, _)
ScanDates(dates_found, ms, k, content) ==
    IF k > Len(ms) THEN dates_found
    ELSE LET date_str == Group(ms[k], content, 1)
         IN  IF ~InList(date_str, dates_found)
             THEN LET added == Append(dates_found, date_str)
                  IN  IF Len(added) >= 5 THEN added
                      ELSE ScanDates(added, ms, k + 1, content)
             ELSE ScanDates(dates_found, ms, k + 1, content)

(* lines 98-104: the outer loop over DATE_PATTERNS *)
RECURSIVE DatesFrom(_, _, _)
DatesFrom(dates_found, p, content) ==
    IF p > Len(DATE_PATTERNS) THEN dates_found
    ELSE DatesFrom(ScanDates(dates_found, FindIter(DATE_PATTERNS[p], content, NoFlags),
                             1, content),
                   p + 1, content)


(* a slip: the search does not stop, the last type with a keyword wins *)
DocTypeFrom_LastWins(content_lower, t) ==
    LET found == {e \in t..Len(DOCUMENT_TYPE_KEYWORDS) :
                     \E k \in 1..Len(DOCUMENT_TYPE_KEYWORDS[e][2]) :
                        Contains(content_lower, DOCUMENT_TYPE_KEYWORDS[e][2][k])}
    IN  IF found = {} THEN <<"u", "n", "k", "n", "o", "w", "n">>
        ELSE DOCUMENT_TYPE_KEYWORDS[CHOOSE e \in found : \A f \in found : f <= e][1]

(* lines 107-111 *)
RECURSIVE DocTypeFrom(_, _)
DocTypeFrom(content_lower, t) ==
    IF t > Len(DOCUMENT_TYPE_KEYWORDS) THEN <<"u", "n", "k", "n", "o", "w", "n">>
    ELSE LET keywords == DOCUMENT_TYPE_KEYWORDS[t][2]
         IN  IF \E k \in 1..Len(keywords) : Contains(content_lower, keywords[k])
             THEN DOCUMENT_TYPE_KEYWORDS[t][1]
             ELSE DocTypeFrom(content_lower, t + 1)


(* sorted(set of str) *)
RECURSIVE SortedSet(_)
SortedSet(S) ==
    IF S = {} THEN <<>>
    ELSE LET least == CHOOSE x \in S : \A y \in S : x = y \/ StrLess(x, y)
         IN  <<least>> \o SortedSet(S \ {least})

(* lines 114-117 *)
ControlFamilies(content) ==
    LET ms == FindIter(META_CONTROL_PATTERN, content, NoFlags)
    IN  SortedSet({Upper(Group(ms[k], content, 1)) : k \in 1..Len(ms)})

(* len(content.split()): the maximal runs of non-whitespace *)
WordCount(content) ==
    Cardinality({i \in 1..Len(content) :
                    /\ content[i] \notin Space
                    /\ (i = 1 \/ content[i - 1] \in Space)})

(* len(re.findall(pattern, content, re.MULTILINE)) *)
CountMatches(pat, content) == Len(FindIter(pat, content, Flags(FALSE, TRUE)))


extract_metadata_from_file(filepath, tool) ==
    IF filepath.data = ReadError THEN [error |-> "read_text failed"]
    ELSE
    LET content == filepath.data
        lines == SplitLines(content)
    IN  [source_file |-> filepath.name,
         source_path |-> PathStr(filepath),
         conversion_tool |-> tool,
         title |-> TitleFrom(lines, 1, None),
         document_type |-> DocTypeFrom(Lower(content), 1),
         version |-> VersionFrom(content, 1),
         dates_found |-> DatesFrom(<<>>, 1, content),
         control_families |-> ControlFamilies(content),
         statistics |->
            [word_count |-> WordCount(content),
             line_count |-> Len(lines),
             \* r'^#+\s'
             heading_count |->
                CountMatches(<<BOL, Cls({"#"}, 1, -1), Cls(Space, 1, 1)>>, content),
             \* r'^\|'
             table_row_count |-> CountMatches(<<BOL, Lit(<<"|">>)>>, content),
             \* r'^[\-\*]\s'
             list_item_count |->
                CountMatches(<<BOL, Cls({"-", "*"}, 1, 1), Cls(Space, 1, 1)>>, content)]]

(***************************************************************************)
(* main of extract-controls.py: the summary, lines 126-156                 *)
(***************************************************************************)
(* a slip: by_family[k] = n, the count is set, not added to *)
Inc_Set(d, k, n) == Put(d, k, n)

(* by_family[k] += n for a defaultdict(int) *)
Inc(d, k, n) == Put(d, k, Get(d, k, 0) + n)

(* lines 131-135: the four tallies after the records from the k-th on *)
RECURSIVE ControlTallies(_, _, _)
ControlTallies(tally, all_controls, k) ==
    IF k > Len(all_controls) THEN tally
    ELSE LET ctrl == all_controls[k]
         IN  ControlTallies(
                [by_family |-> Inc(tally.by_family, ctrl.control_family, 1),
                 by_control |-> Put(tally.by_control, ctrl.control_id,
                                    Append(Get(tally.by_control, ctrl.control_id, <<>>),
                                           ctrl.conversion_tool)),
                 by_tool |-> Inc(tally.by_tool, ctrl.conversion_tool, 1),
                 by_document |-> Inc(tally.by_document, ctrl.source_document, 1)],
                all_controls, k + 1)

(* a slip: the occurrences are counted, not the distinct tools *)
FoundByAllTools_Occurrences(tools) == Len(tools) = 3

(* line 141: len(set(tools)) == 3 *)
FoundByAllTools(tools) == Cardinality(SetOf(tools)) = 3

(* lines 139-142: the keys of by_control, in its order, that pass the test *)
RECURSIVE ControlsAllTools(_)
ControlsAllTools(by_control) ==
    IF Len(by_control) = 0 THEN <<>>
    ELSE (IF FoundByAllTools(Head(by_control)[2]) THEN <<Head(by_control)[1]>> ELSE <<>>)
           \o ControlsAllTools(Tail(by_control))

ControlsSummary(all_controls) ==
    LET tally == ControlTallies([by_family |-> <<>>, by_control |-> <<>>,
                                 by_tool |-> <<>>, by_document |-> <<>>],
                                all_controls, 1)
        unique_controls == SetOf(Keys(tally.by_control))
    IN  [total_references |-> Len(all_controls),
         unique_controls |-> Cardinality(unique_controls),
         by_family |-> SortedItems(tally.by_family),
         by_tool |-> tally.by_tool,
         by_document |-> tally.by_document,
         controls_found_by_all_tools |-> SortedStrs(ControlsAllTools(tally.by_control)),
         control_families_covered |-> SortedStrs(Keys(tally.by_family))]

(***************************************************************************)
(* main of extract-entities.py: the summary, lines 138-162                 *)
(***************************************************************************)
RECURSIVE EntityTallies(_, _, _)
EntityTallies(tally, all_entities, k) ==
    IF k > Len(all_entities) THEN tally
    ELSE LET entity == all_entities[k]
         IN  EntityTallies(
                [by_type |-> Inc(tally.by_type, entity.entity_type, entity.occurrences),
                 unique_by_type |->
                    Put(tally.unique_by_type, entity.entity_type,
                        Get(tally.unique_by_type, entity.entity_type, {})
                          \cup {entity.value})],
                all_entities, k + 1)

RECURSIVE SumOccurrences(_, _)
SumOccurrences(all_entities, k) ==
    IF k > Len(all_entities) THEN 0
    ELSE all_entities[k].occurrences + SumOccurrences(all_entities, k + 1)

EntitiesSummary(all_entities) ==
    LET tally == EntityTallies([by_type |-> <<>>, unique_by_type |-> <<>>],
                               all_entities, 1)
        by_type == SortedItems(tally.by_type)
        unique_by_type == tally.unique_by_type
    IN  [total_entities |-> Len(all_entities),
         total_occurrences |-> SumOccurrences(all_entities, 1),
         by_type |->
            [i \in 1..Len(by_type) |->
                <<by_type[i][1],
                  [total_occurrences |-> by_type[i][2],
                   unique_values |->
                      Cardinality(Get(unique_by_type, by_type[i][1], {}))]>>],
         unique_values_by_type |->
            [i \in 1..Len(unique_by_type) |->
                <<unique_by_type[i][1], SubSeq(SortedSet(unique_by_type[i][2]), 1,
                        Min(20, Cardinality(unique_by_type[i][2])))>>]]

(***************************************************************************)
(* main of extract-metadata.py: the summary, lines 147-164                 *)
(***************************************************************************)
(* meta.get(field, default) *)
RecGet(meta, field, default) == IF field \in DOMAIN meta THEN meta[field] ELSE default

RECURSIVE MetadataTallies(_, _, _)
MetadataTallies(tally, all_metadata, k) ==
    IF k > Len(all_metadata) THEN tally
    ELSE LET meta == all_metadata[k]
         IN  MetadataTallies(
                [doc_types |-> Inc(tally.doc_types,
                                   RecGet(meta, "document_type", <<"u", "n", "k", "n", "o",
                                         "w", "n">>), 1),
                 all_families |-> tally.all_families
                                    \cup SetOf(RecGet(meta, "control_families", <<>>)),
                 total_words |-> tally.total_words
                                   + RecGet(RecGet(meta, "statistics", <<>>),
                                            "word_count", 0)],
                all_metadata, k + 1)

MetadataSummary(all_metadata) ==
    LET tally == MetadataTallies([doc_types |-> <<>>, all_families |-> {},
                                  total_words |-> 0],
                                 all_metadata, 1)
    IN  [total_documents |-> Len(all_metadata),
         by_type |-> tally.doc_types,
         all_control_families |-> SortedSet(tally.all_families),
         total_word_count |-> tally.total_words]

(***************************************************************************)
(* The runs of the three scripts over an output tree                       *)
(***************************************************************************)
(* the most markdown files a tree holds *)
MaxTreeFiles == 3
(* the most runs of a script over one tree *)
MaxRuns == 2

\* the scenario of the control extractor
ScenarioDoc == <<"A", "c", "c", "o", "u", "n", "t", " ", "m", "a", "n", "a", "g", "e", "m",
      "e", "n", "t", " ", "(", "A", "C", "-", "2", ")", " ", "r", "e", "v", "i", "e", "w", "e",
      "d", ";", " ", "s", "e", "e", " ", "a", "l", "s", "o", " ", "A", "C", "-", "2", "(", "1",
      ")", " ", "a", "n", "d", " ", "S", "C", "-", "7", ".", "a", ".">>
PolicyDoc == <<"#", " ", "A", "c", "c", "e", "s", "s", " ", "C", "o", "n", "t", "r", "o", "l",
      " ", "P", "o", "l", "i", "c", "y", "\n", "V", "e", "r", "s", "i", "o", "n", ":", " ",
      "1", ".", "0", "\n", "T", "h", "e", " ", "C", "I", "S", "O", " ", "a", "n", "d", " ",
      "t", "h", "e", " ", "c", "i", "s", "o", " ", "r", "e", "v", "i", "e", "w", " ", "a", "c",
      "-", "2", " ", "w", "i", "t", "h", " ", "t", "h", "e", " ", "S", "O", "C", " ", "2", " ",
      "a", "u", "d", "i", "t", ".", "\n">>
(* every tool converts the same source documents: the markdown of a.md *)
(* and of b.md                                                         *)
DocOf(name) == IF name = <<"a", ".", "m", "d">> THEN ScenarioDoc ELSE PolicyDoc

ToolSet == SetOf(TOOLS)
Slots == ToolSet \X {<<"a", ".", "m", "d">>, <<"b", ".", "m", "d">>}
(* read_text on a file returns its text, or raises *)
AllFiles ==
    UNION {{[name |-> s[2], tool |-> s[1], data |-> d] : d \in {DocOf(s[2]), ReadError}} : s \in Slots}

(* the extractors' results for every file a tree can hold, computed once *)
ControlsTable == [f \in AllFiles |-> extract_controls_from_file(f, f.tool)]
EntitiesTable == [f \in AllFiles |-> extract_entities_from_file(f, f.tool)]
MetadataTable == [f \in AllFiles |-> extract_metadata_from_file(f, f.tool)]

VARIABLES
    script,        \* the script whose main runs
    dirs,          \* the tools whose <tool>/markdown directory exists
    tree,          \* the markdown files
    pc,            \* "tools": at the head of the for loop over the tools;
                   \* "files": in the loop over the files of one tool;
                   \* "done": the output is written
    tool_i,        \* the index of the loop over the tools
    md_files,      \* the files of the current tool still to process
    all_controls,  \* main's list in extract-controls.py
    all_entities,  \* main's list in extract-entities.py
    all_metadata,  \* main's list in extract-metadata.py
    last_call,     \* the last call of extract_*_from_file and what it returned
    output,        \* the content of the output file
    clock,         \* datetime.now()
    run,           \* the number of the run
    rerun,         \* how this run's tree relates to the previous run's
    prev_output,   \* the output file as the previous run left it
    fn_pc,         \* a single call of one extractor: "input", then "called",
                   \* then "recalled"
    fn_in,         \* the file the extractor is called on, and how it was built
    fn_out         \* what the call returned

mainVars == <<script, dirs, tree, pc, tool_i, md_files, all_controls, all_entities,
              all_metadata, last_call, output, clock, run, rerun, prev_output>>
fnVars == <<fn_pc, fn_in, fn_out>>
vars == <<mainVars, fnVars>>

NoCall == [made |-> FALSE, filepath |-> [name |-> <<>>, tool |-> <<>>, data |-> <<>>],
           result |-> <<>>]
NoOutput == [extraction_timestamp |-> 0, records |-> <<>>, summary |-> <<>>]

Init ==
    /\ script \in {"extract-controls", "extract-entities", "extract-metadata"}
    /\ \E slots \in SUBSET Slots :
          /\ Cardinality(slots) <= MaxTreeFiles
          /\ \E readable \in SUBSET slots :
                tree = {[name |-> s[2], tool |-> s[1],
                         data |-> IF s \in readable THEN DocOf(s[2]) ELSE ReadError] :
                            s \in slots}
          /\ dirs \in {{s[1] : s \in slots}, ToolSet}
    /\ pc = "tools"
    /\ tool_i = 1
    /\ md_files = <<>>
    /\ all_controls = <<>>
    /\ all_entities = <<>>
    /\ all_metadata = <<>>
    /\ last_call = NoCall
    /\ output = NoOutput
    /\ clock = 1
    /\ run = 1
    /\ rerun = "first"
    /\ prev_output = NoOutput
    /\ fn_pc = "off"
    /\ fn_in = <<>>
    /\ fn_out = <<>>

(* md_dir.glob('*.md'): the files of the directory, in the order the file *)
(* system lists them                                                       *)
Listings(tool) ==
    LET fs == {f \in tree : f.tool = tool}
    IN  {l \in [1..Cardinality(fs) -> fs] : \A i, j \in 1..Cardinality(fs) : l[i] = l[j] => i = j}

(* sorted(paths): by name, the paths of one directory *)
RECURSIVE InsertPath(_, _)
InsertPath(f, fs) ==
    IF Len(fs) = 0 THEN <<f>>
    ELSE IF StrLess(f.name, Head(fs).name) THEN <<f>> \o fs
    ELSE <<Head(fs)>> \o InsertPath(f, Tail(fs))
(* a slip: the listing is used as the file system gives it *)
SortedPaths_Unsorted(listing) == listing

RECURSIVE SortedPaths(_)
SortedPaths(listing) ==
    IF Len(listing) = 0 THEN <<>>
    ELSE InsertPath(listing[Len(listing)],
                    SortedPaths(SubSeq(listing, 1, Len(listing) - 1)))

(* lines 116-120: one turn of `for tool in [...]`, up to the first file *)
EnterTool ==
    /\ pc = "tools"
    /\ tool_i <= Len(TOOLS)
    /\ TOOLS[tool_i] \in dirs
    /\ \E listing \in Listings(TOOLS[tool_i]) :
          LET sorted == SortedPaths(listing)
          IN  /\ md_files' = sorted
              /\ IF Len(sorted) = 0
                 THEN pc' = "tools" /\ tool_i' = tool_i + 1
                 ELSE pc' = "files" /\ tool_i' = tool_i
    /\ UNCHANGED <<script, dirs, tree, all_controls, all_entities, all_metadata,
                   last_call, output, clock, run, rerun, prev_output,
                   fnVars>>

(* line 118: `if md_dir.exists()` is false *)
SkipTool ==
    /\ pc = "tools"
    /\ tool_i <= Len(TOOLS)
    /\ TOOLS[tool_i] \notin dirs
    /\ tool_i' = tool_i + 1
    /\ UNCHANGED <<script, dirs, tree, pc, md_files, all_controls, all_entities,
                   all_metadata, last_call, output, clock, run, rerun, prev_output,
                   fnVars>>

(* a slip: the exception of a failed read is not caught and ends the run *)
NextFile_AbortOnReadError ==
    /\ Head(md_files).data # ReadError
    /\ md_files' = Tail(md_files)
    /\ IF Len(md_files) = 1
       THEN pc' = "tools" /\ tool_i' = tool_i + 1
       ELSE pc' = "files" /\ tool_i' = tool_i

(* the loop over the files moves on; after the last file, over the tools *)
NextFile ==
    /\ md_files' = Tail(md_files)
    /\ IF Len(md_files) = 1
       THEN pc' = "tools" /\ tool_i' = tool_i + 1
       ELSE pc' = "files" /\ tool_i' = tool_i

(* extract-controls.py lines 120-123 *)
ControlsFile ==
    /\ script = "extract-controls"
    /\ pc = "files"
    /\ LET md_file == Head(md_files)
           controls == ControlsTable[md_file]
       IN  /\ all_controls' = all_controls \o controls
           /\ last_call' = [made |-> TRUE, filepath |-> md_file, result |-> controls]
    /\ NextFile
    /\ UNCHANGED <<script, dirs, tree, all_entities, all_metadata, output, clock, run,
                   rerun, prev_output,
                   fnVars>>

(* extract-entities.py lines 132-135 *)
EntitiesFile ==
    /\ script = "extract-entities"
    /\ pc = "files"
    /\ LET md_file == Head(md_files)
           entities == EntitiesTable[md_file]
       IN  /\ all_entities' = all_entities \o entities
           /\ last_call' = [made |-> TRUE, filepath |-> md_file, result |-> entities]
    /\ NextFile
    /\ UNCHANGED <<script, dirs, tree, all_controls, all_metadata, output, clock, run,
                   rerun, prev_output,
                   fnVars>>

(* extract-metadata.py lines 141-144 *)
MetadataFile ==
    /\ script = "extract-metadata"
    /\ pc = "files"
    /\ LET md_file == Head(md_files)
           metadata == MetadataTable[md_file]
       IN  /\ all_metadata' = Append(all_metadata, metadata)
           /\ last_call' = [made |-> TRUE, filepath |-> md_file, result |-> <<metadata>>]
    /\ NextFile
    /\ UNCHANGED <<script, dirs, tree, all_controls, all_entities, output, clock, run,
                   rerun, prev_output,
                   fnVars>>

(* the output dict of each main; "records" is its "controls", "entities" *)
(* or "documents" list                                                    *)
(* the loops are over: the summary is computed and the output file written *)
WriteOutput(out) ==
    /\ pc = "tools"
    /\ tool_i > Len(TOOLS)
    /\ output' = out
    /\ clock' = clock + 1
    /\ pc' = "done"
    /\ UNCHANGED <<script, dirs, tree, tool_i, md_files, all_controls, all_entities,
                   all_metadata, last_call, run, rerun, prev_output,
                   fnVars>>

(* extract-controls.py lines 125-161 *)
ControlsOutput ==
    /\ script = "extract-controls"
    /\ WriteOutput([extraction_timestamp |-> clock, records |-> all_controls,
                    summary |-> ControlsSummary(all_controls)])

(* extract-entities.py lines 137-168 *)
EntitiesOutput ==
    /\ script = "extract-entities"
    /\ WriteOutput([extraction_timestamp |-> clock, records |-> all_entities,
                    summary |-> EntitiesSummary(all_entities)])

(* extract-metadata.py lines 146-170 *)
MetadataOutput ==
    /\ script = "extract-metadata"
    /\ WriteOutput([extraction_timestamp |-> clock, records |-> all_metadata,
                    summary |-> MetadataSummary(all_metadata)])

(* the script is started again: main's locals are fresh, the output file *)
(* of the last run is still there                                        *)
Restart(kind, files) ==
    /\ pc = "done"
    /\ run < MaxRuns
    /\ run' = run + 1
    /\ rerun' = kind
    /\ tree' = files
    /\ prev_output' = output
    /\ pc' = "tools"
    /\ tool_i' = 1
    /\ md_files' = <<>>
    /\ all_controls' = <<>>
    /\ all_entities' = <<>>
    /\ all_metadata' = <<>>
    /\ last_call' = NoCall
    /\ UNCHANGED <<script, dirs, output, clock,
                   fnVars>>

(* the script is run again on the unchanged tree *)
RunAgain == Restart("same", tree)

(* the files that cannot be read are deleted and the script is run again *)
RunWithoutUnreadable ==
    LET unreadable == {f \in tree : f.data = ReadError}
    IN  /\ unreadable # {}
        /\ Restart("pruned", tree \ unreadable)

Next ==
    \/ EnterTool
    \/ SkipTool
    \/ ControlsFile
    \/ EntitiesFile
    \/ MetadataFile
    \/ ControlsOutput
    \/ EntitiesOutput
    \/ MetadataOutput
    \/ RunAgain
    \/ RunWithoutUnreadable

Spec == Init /\ [][Next]_vars

(***************************************************************************)
(* One call of extract_controls_from_file on a line that holds a control   *)
(* reference FF-N[(E)][.p] as a whole token, and a second call on the      *)
(* control_id the first one emitted.                                       *)
(***************************************************************************)
MainOff ==
    /\ script = "none"
    /\ dirs = {}
    /\ tree = {}
    /\ pc = "off"
    /\ tool_i = 0
    /\ md_files = <<>>
    /\ all_controls = <<>>
    /\ all_entities = <<>>
    /\ all_metadata = <<>>
    /\ last_call = NoCall
    /\ output = NoOutput
    /\ clock = 0
    /\ run = 0
    /\ rerun = "none"
    /\ prev_output = NoOutput

FileOf(text) == [name |-> <<"a", ".", "m", "d">>, tool |-> Pandoc, data |-> text]

TokenText(tok) ==
    tok.family \o <<"-">> \o tok.number
      \o (IF tok.enhancement # None THEN <<"(">> \o tok.enhancement \o <<")">> ELSE <<>>)
      \o (IF tok.part # None THEN <<".">> \o tok.part ELSE <<>>)

TokenInit ==
    /\ MainOff
    /\ fn_pc = "input"
    /\ \E f \in {"A", "c", "S", "x"} \X {"A", "c", "S", "x"},
          n \in {<<"2">>, <<"0", "7">>, <<"1", "2">>},
          e \in {None, <<"1">>, <<"0">>, <<"1", "2">>},
          p \in {None, <<"a">>, <<"B">>},
          \* what stands before and after the token on its line
          b \in {<<>>, <<"s", "e", "e", " ">>}, a \in {<<>>, <<" ", "n", "o", "w">>} :
          LET tok == [family |-> f, number |-> n, enhancement |-> e, part |-> p]
          IN  fn_in = [token |-> tok, text |-> b \o TokenText(tok) \o a]
    /\ fn_out = <<>>

ExtractToken ==
    /\ fn_pc = "input"
    /\ fn_out' = extract_controls_from_file(FileOf(fn_in.text), Pandoc)
    /\ fn_pc' = "called"
    /\ UNCHANGED <<mainVars, fn_in>>

(* the control_id of the only record is extracted from again *)
ReExtractToken ==
    /\ fn_pc = "called"
    /\ Len(fn_out) = 1
    /\ fn_out' = fn_out \o extract_controls_from_file(FileOf(fn_out[1].control_id), Pandoc)
    /\ fn_pc' = "recalled"
    /\ UNCHANGED <<mainVars, fn_in>>

TokenNext == ExtractToken \/ ReExtractToken

TokenSpec == TokenInit /\ [][TokenNext]_vars

(***************************************************************************)
(* One call of extract_metadata_from_file on a document made of lines that *)
(* hold dates.                                                             *)
(***************************************************************************)
(* the most date lines of a document *)
MaxDateLines == 8

(* the lines a document is made of, in the order they stand in it *)
DATE_LINES ==
    << <<"2", "0", "2", "4", "-", "0", "3", "-", "0", "3">>,
       <<"D", "a", "t", "e", ":", " ", "2", "0", "2", "4", "-", "0", "1", "-", "0", "1">>,
       <<"E", "f", "f", "e", "c", "t", "i", "v", "e", ":", " ", "2", "0", "2", "4", "-", "0",
             "2", "-", "0", "2">>,
       <<"2", "0", "2", "4", "-", "0", "1", "-", "0", "1">>,
       <<"1", "/", "2", "/", "2", "0", "2", "4">>,
       <<"U", "p", "d", "a", "t", "e", "d", " ", "2", "0", "2", "4", "-", "0", "4", "-", "0",
             "4">>,
       <<"R", "e", "v", "i", "s", "e", "d", ":", " ", "2", "0", "2", "4", "-", "0", "5", "-",
             "0", "5">>,
       <<"D", "a", "t", "e", ":", " ", "2", "0", "2", "4", "-", "0", "2", "-", "0", "2">>,
       <<"D", "a", "t", "e", ":", " ", "2", "0", "2", "4", "-", "0", "6", "-", "0", "6">>,
       <<"M", "a", "r", "c", "h", " ", "5", ",", " ", "2", "0", "2", "4">>,
       <<"D", "a", "t", "e", ":", " ", "2", "0", "2", "4", "-", "0", "7", "-", "0", "7">> >>

DatesInit ==
    /\ MainOff
    /\ fn_pc = "input"
    /\ fn_in = [text |-> <<>>, picked |-> {}]
    /\ fn_out = <<>>

(* one more of DATE_LINES, from further down the list, is written *)
AddDateLine ==
    /\ fn_pc = "input"
    /\ Cardinality(fn_in.picked) < MaxDateLines
    /\ \E k \in 1..Len(DATE_LINES) :
          /\ \A j \in fn_in.picked : j < k
          /\ fn_in' = [text |-> fn_in.text \o DATE_LINES[k] \o <<"\n">>,
                       picked |-> fn_in.picked \cup {k}]
    /\ UNCHANGED <<mainVars, fn_pc, fn_out>>

ExtractMetadata ==
    /\ fn_pc = "input"
    /\ fn_out' = extract_metadata_from_file(FileOf(fn_in.text), Pandoc)
    /\ fn_pc' = "called"
    /\ UNCHANGED <<mainVars, fn_in>>

DatesNext == AddDateLine \/ ExtractMetadata

DatesSpec == DatesInit /\ [][DatesNext]_vars

(***************************************************************************)
(* One call of extract_entities_from_file on a document made of phrases    *)
(* that name entities.                                                     *)
(***************************************************************************)
(* the most phrases of a document *)
MaxPhrases == 3

(* the phrases a document is made of; they may repeat and stand in any order *)
ENTITY_PHRASES ==
    << <<"t", "h", "e", " ", "C", "I", "S", "O", " ">>,
       <<"a", " ", "c", "i", "s", "o", "\n">>,
       <<"S", "O", "C", " ", "2", " ", "a", "u", "d", "i", "t", " ">>,
       <<"s", "o", "c", " ", "t", "e", "a", "m", " ">>,
       <<"S", "O", "C", " ", "T", "e", "a", "m", "\n">>,
       <<"F", "I", "P", "S", " ", "1", "4", "0", "-", "2", " ", "v", "a", "l", "i", "d", "a",
             "t", "e", "d", " ">> >>

EntityInit ==
    /\ MainOff
    /\ fn_pc = "input"
    /\ fn_in = [text |-> <<>>, picked |-> <<>>]
    /\ fn_out = <<>>

AddPhrase ==
    /\ fn_pc = "input"
    /\ Len(fn_in.picked) < MaxPhrases
    /\ \E k \in 1..Len(ENTITY_PHRASES) :
          fn_in' = [text |-> fn_in.text \o ENTITY_PHRASES[k],
                    picked |-> Append(fn_in.picked, k)]
    /\ UNCHANGED <<mainVars, fn_pc, fn_out>>

ExtractEntities ==
    /\ fn_pc = "input"
    /\ fn_out' = extract_entities_from_file(FileOf(fn_in.text), Pandoc)
    /\ fn_pc' = "called"
    /\ UNCHANGED <<mainVars, fn_in>>

EntityNext == AddPhrase \/ ExtractEntities

EntitySpec == EntityInit /\ [][EntityNext]_vars

(***************************************************************************)
(* One call of extract_entities_from_file on a document that names a role  *)
(* several times, by its acronym and in full.                              *)
(***************************************************************************)
(* the most phrases of such a document *)
MaxRolePhrases == 3

ROLE_PHRASES ==
    << <<"t", "h", "e", " ", "C", "I", "S", "O", ",", " ", "o", "u", "r", " ", "C", "h", "i",
          "e", "f", " ", "I", "n", "f", "o", "r", "m", "a", "t", "i", "o", "n", " ", "S", "e",
          "c", "u", "r", "i", "t", "y", " ", "O", "f", "f", "i", "c", "e", "r", " ", "(", "c",
          "i", "s", "o", ")", "\n">>,
       <<"a", "s", "k", " ", "t", "h", "e", " ", "C", "i", "s", "o", " ", "o", "r", " ", "a",
             " ", "C", "h", "i", "e", "f", " ", "S", "e", "c", "u", "r", "i", "t", "y", " ",
             "O", "f", "f", "i", "c", "e", "r", " ">>,
       <<"C", "I", "S", "O", " ", "a", "n", "d", " ", "c", "i", "s", "o", " ", "s", "i", "g",
             "n", ";", " ">>,
       <<"n", "o", " ", "r", "o", "l", "e", " ", "h", "e", "r", "e", "\n">> >>

AddRolePhrase ==
    /\ fn_pc = "input"
    /\ Len(fn_in.picked) < MaxRolePhrases
    /\ \E k \in 1..Len(ROLE_PHRASES) :
          fn_in' = [text |-> fn_in.text \o ROLE_PHRASES[k],
                    picked |-> Append(fn_in.picked, k)]
    /\ UNCHANGED <<mainVars, fn_pc, fn_out>>

RoleNext == AddRolePhrase \/ ExtractEntities

RoleSpec == EntityInit /\ [][RoleNext]_vars

(***************************************************************************)
(* One call of extract_metadata_from_file on a document made of headings,  *)
(* version labels and lines that hold document-type keywords.              *)
(***************************************************************************)
(* the most pieces of such a document *)
MaxMetaLines == 4

(* the pieces a document is made of, in the order they stand in it; the *)
(* second is twenty empty lines                                          *)
META_LINES ==
    << <<"#", " ", " ", "\n">>,
       <<"\n", "\n", "\n", "\n", "\n", "\n", "\n", "\n", "\n", "\n", "\n", "\n", "\n", "\n",
             "\n", "\n", "\n", "\n", "\n", "\n">>,
       <<"O", "v", "e", "r", "v", "i", "e", "w", "\n", "=", "=", "=", "=", "=", "\n">>,
       <<"s", "e", "e", " ", "v", "2", ".", "1", " ", "n", "o", "t", "e", "s", "\n">>,
       <<"R", "e", "v", "i", "s", "i", "o", "n", ":", " ", "3", " ", "o", "f", " ", "t", "h",
             "e", " ", "a", "s", "s", "e", "s", "s", "m", "e", "n", "t", " ", "r", "e", "p",
             "o", "r", "t", "\n">>,
       <<"#", " ", "A", "c", "c", "e", "s", "s", " ", "C", "o", "n", "t", "r", "o", "l", " ",
             "P", "o", "l", "i", "c", "y", "\n">>,
       <<"V", "e", "r", "s", "i", "o", "n", ":", " ", "1", ".", "0", "\n">>,
       <<"#", " ", "S", "e", "c", "o", "n", "d", " ", "H", "e", "a", "d", "i", "n", "g", "\n">>,
       <<"t", "h", "e", " ", "s", "e", "c", "u", "r", "i", "t", "y", " ", "p", "l", "a", "n",
             " ", "w", "o", "r", "k", "f", "l", "o", "w", "\n">>,
       <<"P", "l", "a", "n", "n", "i", "n", "g", " ", "G", "U", "I", "D", "E", " ", "v", ".",
             "4", ".", "0", ".", "1", "\n">>,
       <<"M", "i", "l", "e", "s", "t", "o", "n", "e", "s", "\n">> >>

AddMetaLine ==
    /\ fn_pc = "input"
    /\ Cardinality(fn_in.picked) < MaxMetaLines
    /\ \E k \in 1..Len(META_LINES) :
          /\ \A j \in fn_in.picked : j < k
          /\ fn_in' = [text |-> fn_in.text \o META_LINES[k],
                       picked |-> fn_in.picked \cup {k}]
    /\ UNCHANGED <<mainVars, fn_pc, fn_out>>

MetaNext == AddMetaLine \/ ExtractMetadata

MetaSpec == DatesInit /\ [][MetaNext]_vars

(***************************************************************************)
(* One call of extract_controls_from_file on a document of several lines   *)
(* that hold several control references each, some of them more than once. *)
(***************************************************************************)
(* the most pieces of such a document *)
MaxControlPieces == 3

(* the pieces a document is made of; a piece without a line break goes on  *)
(* in the next one                                                         *)
CONTROL_LINES ==
    << <<"A", "C", "-", "2", " ", "a", "n", "d", " ", "A", "C", "-", "2", " ", "a", "g", "a",
          "i", "n", "\n">>,
       <<"s", "e", "e", " ", "S", "C", "-", "7", ".", "a", ",", " ", "t", "h", "e", "n", " ",
             "a", "c", "-", "2", "(", "1", ")", " ">>,
       <<"n", "o", " ", "c", "o", "n", "t", "r", "o", "l", " ", "h", "e", "r", "e", "\n">>,
       <<"I", "A", "-", "5", " ">>,
       <<".", " ", ".", " ", ".", " ", ".", " ", ".", " ", ".", " ", ".", " ", ".", " ", ".",
             " ", ".", " ", ".", " ", ".", " ", ".", " ", ".", " ", ".", " ", ".", " ", ".",
             " ", ".", " ", ".", " ", ".", " ", ".", " ", ".", " ", ".", " ", ".", " ", ".",
             " ", ".", " ", ".", " ", ".", " ", ".", " ", ".", " ", ".", " ", ".", " ", ".",
             " ", ".", " ", ".", " ", ".", " ", ".", " ", ".", " ", ".", " ", ".", " ", ".",
             " ", ".", " ", ".", " ", ".", " ", ".", " ", ".", " ", ".", " ", ".", " ", ".",
             " ", ".", " ", ".", " ", ".", " ", ".", " ", ".", " ", ".", " ">> >>

AddControlPiece ==
    /\ fn_pc = "input"
    /\ Len(fn_in.picked) < MaxControlPieces
    /\ \E k \in 1..Len(CONTROL_LINES) :
          fn_in' = [text |-> fn_in.text \o CONTROL_LINES[k],
                    picked |-> Append(fn_in.picked, k)]
    /\ UNCHANGED <<mainVars, fn_pc, fn_out>>

ControlLinesNext == AddControlPiece \/ ExtractToken

ControlLinesSpec == EntityInit /\ [][ControlLinesNext]_vars


(***************************************************************************)
(* The files of a tree extracted by extract_controls_from_file one by one  *)
(* in any order, each result folded into all_controls as it arrives, and   *)
(* the summary of main computed at the end.                                *)
(***************************************************************************)
FoldInit ==
    /\ MainOff
    /\ fn_pc = "input"
    /\ \E slots \in SUBSET Slots :
          /\ Cardinality(slots) <= MaxTreeFiles
          /\ LET files == {[name |-> s[2], tool |-> s[1],
                            data |-> IF s[2] = <<"a", ".", "m", "d">> THEN <<"S", "C", "-",
                                  "7", " ", "w", "i", "t", "h", " ", "A", "C", "-", "2", "\n">>
                                     ELSE <<"a", "c", "-", "2", ",", " ", "t", "h", "e", "n",
                                           " ", "S", "C", "-", "7", " ", "a", "n", "d", " ",
                                           "I", "A", "-", "5">>] : s \in slots}
             IN  fn_in = [tree |-> files, left |-> files]
    /\ fn_out = <<>>

(* lines 121-123, for any file that is left *)
FoldFile ==
    /\ fn_pc = "input"
    /\ \E md_file \in fn_in.left :
          /\ fn_out' = fn_out \o extract_controls_from_file(md_file, md_file.tool)
          /\ fn_in' = [fn_in EXCEPT !.left = @ \ {md_file}]
    /\ UNCHANGED <<mainVars, fn_pc>>

(* lines 125-156, once no file is left *)
FoldSummary ==
    /\ fn_pc = "input"
    /\ fn_in.left = {}
    /\ fn_out' = [controls |-> fn_out, summary |-> ControlsSummary(fn_out)]
    /\ fn_pc' = "called"
    /\ UNCHANGED <<mainVars, fn_in>>

FoldNext == FoldFile \/ FoldSummary

FoldSpec == FoldInit /\ [][FoldNext]_vars


(***************************************************************************)
(* The interpreter runs the loops of main to their end: a turn of          *)
(* `for tool in [...]` or of `for md_file in md_files` that can be taken   *)
(* is taken.                                                               *)
(***************************************************************************)
FairSpec ==
    Spec /\ WF_vars(EnterTool \/ SkipTool \/ ControlsFile \/ EntitiesFile \/ MetadataFile)


(***************************************************************************)
(* Properties                                                              *)
(***************************************************************************)
(* C1: when extract-controls.py has written its output, a control_id is in  *)
(* controls_found_by_all_tools if and only if the distinct conversion_tool  *)
(* labels of the records that carry it are exactly pandoc, markitdown and   *)
(* docling; nothing else is listed.                                         *)
C1_ConsensusIffAllTools ==
    (script = "extract-controls" /\ pc = "done") =>
        LET listed == SetOf(output.summary.controls_found_by_all_tools)
            n == Len(output.records)
            ids == {output.records[i].control_id : i \in 1..n}
            toolsOf(cid) == {output.records[i].conversion_tool :
                               i \in {j \in 1..n : output.records[j].control_id = cid}}
        IN  /\ listed \subseteq ids
            /\ \A cid \in ids : (cid \in listed) <=> (toolsOf(cid) = ToolSet)

(* a run where one control is found by all three tools and another is not *)
C1_Witness ==
    /\ script = "extract-controls"
    /\ pc = "done"
    /\ \E i, j \in 1..Len(output.records) :
          /\ InList(output.records[i].control_id,
                    output.summary.controls_found_by_all_tools)
          /\ ~InList(output.records[j].control_id,
                     output.summary.controls_found_by_all_tools)

(* the date literals the patterns capture anywhere in a text *)
TierMatches(text) ==
    << FindIter(DATE_PATTERNS[1], text, NoFlags), FindIter(DATE_PATTERNS[2], text, NoFlags),
       FindIter(DATE_PATTERNS[3], text, NoFlags), FindIter(DATE_PATTERNS[4], text, NoFlags) >>
MatchableDates(text) ==
    LET tiers == TierMatches(text)
    IN  UNION {{Group(tiers[p][k], text, 1) : k \in 1..Len(tiers[p])} : p \in 1..4}

(* C2: dates_found has at most 5 entries, and exactly 5 for a document with *)
(* 7 distinct matchable dates.                                              *)
C2_DatesCappedAtFive ==
    fn_pc = "called" =>
        /\ Len(fn_out.dates_found) <= 5
        /\ Cardinality(MatchableDates(fn_in.text)) = 7 => Len(fn_out.dates_found) = 5

(* C3: dates_found holds no literal twice and is ordered by pattern tier    *)
(* (labeled, bare ISO, slash, long-form: the first tier that captures the   *)
(* literal) and, within a tier, by the position of the literal's first      *)
(* match in the text.                                                       *)
C3_DatesDistinctInTierOrder ==
    fn_pc = "called" =>
        LET ds == fn_out.dates_found
            text == fn_in.text
            tiers == TierMatches(text)
            caught(p, d) == {k \in 1..Len(tiers[p]) : Group(tiers[p][k], text, 1) = d}
            tier(d) == MinOf({p \in 1..4 : caught(p, d) # {}})
            pos(d) == tiers[tier(d)][MinOf(caught(tier(d), d))].start
        IN  /\ \A i, j \in 1..Len(ds) : i # j => ds[i] # ds[j]
            /\ \A i, j \in 1..Len(ds) :
                  i < j => \/ tier(ds[i]) < tier(ds[j])
                           \/ tier(ds[i]) = tier(ds[j]) /\ pos(ds[i]) < pos(ds[j])

(* a document that opens with a bare date, holds a later labeled date and  *)
(* the labeled date 2024-01-01 once more as a bare one                      *)
C3_Witness ==
    /\ fn_pc = "called"
    /\ {1, 2, 4} \subseteq fn_in.picked
    /\ fn_out.dates_found[1] = <<"2", "0", "2", "4", "-", "0", "1", "-", "0", "1">>
    /\ InList(<<"2", "0", "2", "4", "-", "0", "3", "-", "0", "3">>, fn_out.dates_found)

(* C4: a run over a tree with unreadable files writes the records and the  *)
(* summary that the run over the tree without those files writes.          *)
C4_UnreadableFilesLeaveNoTrace ==
    (pc = "done" /\ rerun = "pruned") =>
        /\ output.records = prev_output.records
        /\ output.summary = prev_output.summary

(* C5: every map of the summary is written with its keys ascending. *)
C5_SummaryMapsSorted ==
    /\ (script = "extract-controls" /\ pc = "done") =>
          /\ IsSortedStrs(Keys(output.summary.by_family))
          /\ IsSortedStrs(Keys(output.summary.by_tool))
          /\ IsSortedStrs(Keys(output.summary.by_document))
    /\ (script = "extract-entities" /\ pc = "done") =>
          /\ IsSortedStrs(Keys(output.summary.by_type))
          /\ IsSortedStrs(Keys(output.summary.unique_values_by_type))
    /\ (script = "extract-metadata" /\ pc = "done") =>
          IsSortedStrs(Keys(output.summary.by_type))

(* C6: a token FF-N[(E)][.p] standing alone on a line yields exactly one    *)
(* record: control_id the canonical form of the token, control_family FF    *)
(* upper-cased, base_control FF-N, has_enhancement and enhancement_number   *)
(* telling whether (E) is there and what E is; extracting from the emitted  *)
(* control_id yields one record with the same control_id.                   *)
C6_TokenRoundTrip ==
    /\ fn_pc = "called" => Len(fn_out) = 1
    /\ fn_pc \in {"called", "recalled"} =>
          /\ Len(fn_out) >= 1
          /\ LET tok == fn_in.token
             IN  fn_out[1].control_id =
                    Upper(tok.family) \o <<"-">> \o tok.number
                      \o (IF tok.enhancement # None
                          THEN <<"(">> \o tok.enhancement \o <<")">> ELSE <<>>)
                      \o (IF tok.part # None THEN <<".">> \o Lower(tok.part) ELSE <<>>)
          /\ fn_out[1].control_family = Upper(fn_in.token.family)
          /\ fn_out[1].base_control =
                Upper(fn_in.token.family) \o <<"-">> \o fn_in.token.number
          /\ fn_out[1].has_enhancement = (fn_in.token.enhancement # None)
          /\ fn_out[1].enhancement_number = fn_in.token.enhancement
    /\ fn_pc = "recalled" =>
          /\ Len(fn_out) = 2
          /\ fn_out[2].control_id = fn_out[1].control_id

(* a lower-case family with an enhancement and an upper-case part, extracted *)
(* and extracted again                                                       *)
C6_Witness ==
    /\ fn_pc = "recalled"
    /\ fn_in.token.family = <<"c", "x">>
    /\ fn_in.token.enhancement = <<"1", "2">>
    /\ fn_in.token.part = <<"B">>
    /\ fn_out[2].control_id = <<"C", "X", "-", "0", "7", "(", "1", "2", ")", ".", "b">>

(* C7: a second run over the unchanged tree writes the records and the     *)
(* summary of the first, in the same order; only the timestamp may differ. *)
C7_RerunIdentical ==
    (pc = "done" /\ rerun = "same") =>
        /\ output.records = prev_output.records
        /\ output.summary = prev_output.summary

(* a second run over a directory of two files, with a later timestamp *)
C7_Witness ==
    /\ pc = "done"
    /\ rerun = "same"
    /\ \E t \in ToolSet : Cardinality({f \in tree : f.tool = t}) = 2
    /\ Len(output.records) >= 2
    /\ output.extraction_timestamp # prev_output.extraction_timestamp

(* the raw matches of a text: category, pattern, match number, captured text *)
RawMatches(content) ==
    UNION {UNION {LET ms == FindIter(ENTITY_PATTERNS[t][2][p], content, Flags(TRUE, FALSE))
                  IN  {<<ENTITY_PATTERNS[t][1], p, k, Group(ms[k], content, 1)>> :
                         k \in 1..Len(ms)} :
                  p \in 1..Len(ENTITY_PATTERNS[t][2])} :
           t \in 1..Len(ENTITY_PATTERNS)}

(* C8: the occurrences of an entity record is the number of raw matches of  *)
(* the record's category whose normalized capture is the record's value,    *)
(* and every raw match is counted in a record of its own category.          *)
C8_OccurrencesCountRawMatches ==
    fn_pc = "called" =>
        LET raw == RawMatches(fn_in.text)
        IN  /\ \A i \in 1..Len(fn_out) :
                  fn_out[i].occurrences =
                      Cardinality({m \in raw : /\ m[1] = fn_out[i].entity_type
                                               /\ Normalize(m[1], m[4]) = fn_out[i].value})
            /\ \A m \in raw : \E i \in 1..Len(fn_out) :
                  /\ fn_out[i].entity_type = m[1]
                  /\ fn_out[i].value = Normalize(m[1], m[4])

(* a role matched twice, and "SOC" matched as an organization and, within  *)
(* "SOC 2", as a standard                                                   *)
C8_Witness ==
    /\ fn_pc = "called"
    /\ \E i, j, k \in 1..Len(fn_out) :
          /\ fn_out[i].entity_type = <<"r", "o", "l", "e">> /\ fn_out[i].occurrences = 2
          /\ fn_out[j].entity_type = <<"o", "r", "g", "a", "n", "i", "z", "a", "t", "i", "o",
                "n">> /\ fn_out[j].value = <<"S", "O", "C">>
          /\ fn_out[k].entity_type = <<"s", "t", "a", "n", "d", "a", "r",
                "d">> /\ fn_out[k].value = <<"S", "O", "C", " ", "2">>

(* C9: no two records of a document share (entity_type, value), and in the *)
(* normalized categories the matches whose captured text differs only in   *)
(* letter case are counted together in exactly one record.                 *)
C9_OneRecordPerNormalizedValue ==
    fn_pc = "called" =>
        /\ \A i, j \in 1..Len(fn_out) :
              i # j => <<fn_out[i].entity_type, fn_out[i].value>>
                         # <<fn_out[j].entity_type, fn_out[j].value>>
        /\ LET raw == RawMatches(fn_in.text)
           IN  \A m \in raw :
                  m[1] \in NORMALIZED_TYPES =>
                      LET alike == {n \in raw : /\ n[1] = m[1]
                                                /\ Lower(Strip(n[4])) = Lower(Strip(m[4]))}
                          recs == {i \in 1..Len(fn_out) :
                                      /\ fn_out[i].entity_type = m[1]
                                      /\ Lower(fn_out[i].value) = Lower(Strip(m[4]))}
                      IN  /\ Cardinality(recs) = 1
                          /\ \A i \in recs : fn_out[i].occurrences = Cardinality(alike)

(* "soc team" and "SOC Team" in one document, and "CISO" with "ciso" *)
C9_Witness ==
    /\ fn_pc = "called"
    /\ \E a, b \in 1..Len(fn_in.picked) : fn_in.picked[a] = 4 /\ fn_in.picked[b] = 5
    /\ \E i \in 1..Len(fn_out) :
          /\ fn_out[i].entity_type = <<"r", "o", "l", "e">>
          /\ fn_out[i].value = <<"S", "o", "c", " ", "T", "e", "a", "m">>
          /\ fn_out[i].occurrences = 2

(* C10: the scenario line yields AC-2 without enhancement, AC-2(1) with    *)
(* enhancement "1" and SC-7.a, in this order, the first two of the family  *)
(* "Access Control", the third of "System and Communications Protection".  *)
C10_Scenario ==
    (script = "extract-controls" /\ last_call.made
        /\ last_call.filepath.data = ScenarioDoc) =>
        LET r == last_call.result
        IN  /\ Len(r) = 3
            /\ r[1].control_id = <<"A", "C", "-", "2">>
            /\ r[1].has_enhancement = FALSE
            /\ r[2].control_id = <<"A", "C", "-", "2", "(", "1", ")">>
            /\ r[2].enhancement_number = <<"1">>
            /\ r[3].control_id = <<"S", "C", "-", "7", ".", "a">>
            /\ r[1].control_family_name = "Access Control"
            /\ r[2].control_family_name = "Access Control"
            /\ r[3].control_family_name = "System and Communications Protection"

(* extract_controls_from_file has returned for a file that holds the line *)
C10_Witness ==
    /\ script = "extract-controls"
    /\ last_call.made
    /\ last_call.filepath.data = ScenarioDoc
    /\ Len(last_call.result) = 3

(* C11: a text that holds both "CISO" and "Chief Information Security      *)
(* Officer" yields two role records, one with the value of each phrase.    *)
C11_AcronymAndFullTitle ==
    (fn_pc = "called" /\ \E i \in 1..Len(fn_in.picked) : fn_in.picked[i] = 1) =>
        /\ \E i \in 1..Len(fn_out) :
              fn_out[i].entity_type = <<"r", "o", "l", "e">> /\ fn_out[i].value = <<"C", "I",
                    "S", "O">>
        /\ \E i \in 1..Len(fn_out) :
              /\ fn_out[i].entity_type = <<"r", "o", "l", "e">>
              /\ fn_out[i].value = <<"C", "h", "i", "e", "f", " ", "I", "n", "f", "o", "r",
                    "m", "a", "t", "i", "o", "n", " ", "S", "e", "c", "u", "r", "i", "t", "y",
                    " ", "O", "f", "f", "i", "c", "e", "r">>

(* C12: the title is that of the first line, among the first 20, that      *)
(* matches a heading pattern, whatever lines follow it; it is null when no *)
(* such line is among the first 20; a document that begins with            *)
(* "# Access Control Policy" has the title "Access Control Policy".        *)
C12_TitleIsFirstHeading ==
    fn_pc = "called" =>
        LET lines == SplitLines(fn_in.text)
            headings == {i \in 1..Min(20, Len(lines)) : TitleOfLine(lines[i]) # None}
        IN  /\ fn_out.title =
                  IF headings = {} THEN None ELSE TitleOfLine(lines[MinOf(headings)])
            /\ (6 \in fn_in.picked /\ \A k \in fn_in.picked : k >= 6) =>
                  fn_out.title = <<"A", "c", "c", "e", "s", "s", " ", "C", "o", "n", "t", "r",
                        "o", "l", " ", "P", "o", "l", "i", "c", "y">>

(* C13: the version is the first match of the "Version" label pattern if   *)
(* that pattern matches anywhere, else the first match of the bare         *)
(* v-number pattern, else the first match of the "Revision" label, else    *)
(* null; a document that holds "Version: 1.0" has the version "1.0" even   *)
(* after an earlier v-number or Revision label.                            *)
C13_VersionByPatternPriority ==
    fn_pc = "called" =>
        LET text == fn_in.text
            picked == fn_in.picked
            m1 == Search(VERSION_PATTERNS[1], text, NoFlags)
            m2 == Search(VERSION_PATTERNS[2], text, NoFlags)
            m3 == Search(VERSION_PATTERNS[3], text, NoFlags)
        IN  /\ fn_out.version =
                  IF m1.ok THEN Group(m1, text, 1)
                  ELSE IF m2.ok THEN Group(m2, text, 1)
                  ELSE IF m3.ok THEN Group(m3, text, 1)
                  ELSE None
            /\ 7 \in picked => fn_out.version = <<"1", ".", "0">>
            /\ (7 \notin picked /\ 4 \in picked) => fn_out.version = <<"2", ".", "1">>
            /\ (picked \cap {4, 7} = {} /\ 10 \in picked) => fn_out.version = <<"4", ".", "0",
                  ".", "1">>
            /\ (picked \cap {4, 7, 10} = {} /\ 5 \in picked) => fn_out.version = <<"3">>
            /\ picked \cap {4, 5, 7, 10} = {} => fn_out.version = None

(* "Version: 1.0" after a v-number and a Revision label *)
C13_Witness ==
    /\ fn_pc = "called"
    /\ {4, 5, 7} \subseteq fn_in.picked
    /\ fn_out.version = <<"1", ".", "0">>

(* C15: a document whose first lines are a text line and an underline of   *)
(* three or more "=" has that text line as its title.                      *)
C15_UnderlineHeadingIsTitle ==
    (fn_pc = "called" /\ 3 \in fn_in.picked /\ \A k \in fn_in.picked : k >= 3) =>
        fn_out.title = <<"O", "v", "e", "r", "v", "i", "e", "w">>

(* C16: document_type is the first of policy, procedure, ssp, poam, sar,   *)
(* plan, guide one of whose keywords occurs in the lower-cased text, and   *)
(* "unknown" exactly when no keyword of any type occurs.                   *)
C16_DocumentTypeByPriority ==
    fn_pc = "called" =>
        LET low == Lower(fn_in.text)
            picked == fn_in.picked
            order == <<<<"p", "o", "l", "i", "c", "y">>, <<"p", "r", "o", "c", "e", "d", "u",
                  "r", "e">>, <<"s", "s", "p">>, <<"p", "o", "a", "m">>, <<"s", "a", "r">>,
                  <<"p", "l", "a", "n">>, <<"g", "u", "i", "d", "e">>>>
            has(t) == \E e \in 1..Len(DOCUMENT_TYPE_KEYWORDS) :
                         /\ DOCUMENT_TYPE_KEYWORDS[e][1] = order[t]
                         /\ \E k \in 1..Len(DOCUMENT_TYPE_KEYWORDS[e][2]) :
                               Contains(low, DOCUMENT_TYPE_KEYWORDS[e][2][k])
            hits == {t \in 1..Len(order) : has(t)}
        IN  /\ fn_out.document_type =
                  IF hits = {} THEN <<"u", "n", "k", "n", "o", "w",
                        "n">> ELSE order[MinOf(hits)]
            /\ (fn_out.document_type = <<"u", "n", "k", "n", "o", "w", "n">>) <=> (hits = {})
            /\ 6 \in picked => fn_out.document_type = <<"p", "o", "l", "i", "c", "y">>
            /\ (6 \notin picked /\ 9 \in picked) => fn_out.document_type = <<"p", "r", "o",
                  "c", "e", "d", "u", "r", "e">>
            /\ (picked \cap {6, 9} = {} /\ 11 \in picked) => fn_out.document_type = <<"p", "o",
                  "a", "m">>
            /\ (picked \cap {6, 9, 11} = {} /\ 5 \in picked) => fn_out.document_type = <<"s",
                  "a", "r">>
            /\ (picked \cap {5, 6, 9, 11} = {} /\ 10 \in picked) =>
                  fn_out.document_type = <<"p", "l", "a", "n">>
            /\ picked \cap {5, 6, 9, 10, 11} = {} => fn_out.document_type = <<"u", "n", "k",
                  "n", "o", "w", "n">>

(* "workflow" and "security plan" on one line, "Planning GUIDE" on another *)
C16_Witness ==
    /\ fn_pc = "called"
    /\ {9, 10} \subseteq fn_in.picked
    /\ 6 \notin fn_in.picked
    /\ fn_out.document_type = <<"p", "r", "o", "c", "e", "d", "u", "r", "e">>

(* C14: whatever files of the tree cannot be read, a run that starts comes *)
(* to the end of its loops, where the output is written, and by then       *)
(* every file that can be read has been processed: the records gathered    *)
(* hold exactly what the extractor returns for it.                         *)
C14_ReadFailureNeverAborts ==
    (pc = "tools" /\ tool_i = 1) ~>
        (/\ pc = "tools"
         /\ tool_i = Len(TOOLS) + 1
         /\ \A f \in {g \in tree : g.data # ReadError} :
               LET ofFile(r) ==
                       /\ "conversion_tool" \in DOMAIN r
                       /\ r.conversion_tool = f.tool
                       /\ IF script = "extract-metadata"
                          THEN r.source_file = f.name
                          ELSE r.source_document = f.name
               IN  CASE script = "extract-controls" ->
                          SelectSeq(all_controls, ofFile) = ControlsTable[f]
                     [] script = "extract-entities" ->
                          SelectSeq(all_entities, ofFile) = EntitiesTable[f]
                     [] script = "extract-metadata" ->
                          SelectSeq(all_metadata, ofFile) = <<MetadataTable[f]>>)

(* the loops of a run have ended over a directory whose first file could  *)
(* not be read and whose second file gave records                         *)
C14_Witness ==
    /\ pc = "tools"
    /\ tool_i = Len(TOOLS) + 1
    /\ \E f, g \in tree :
          /\ f.tool = g.tool
          /\ f.name = <<"a", ".", "m", "d">>
          /\ g.name = <<"b", ".", "m", "d">>
          /\ f.data = ReadError
          /\ g.data # ReadError
          /\ \E i \in 1..Len(all_controls \o all_entities \o all_metadata) :
                /\ "conversion_tool" \in DOMAIN (all_controls \o all_entities \o all_metadata)[i]
                /\ (all_controls \o all_entities \o all_metadata)[i].conversion_tool = g.tool

(* C17: the records of one file come line by line and, within a line, by   *)
(* where the match starts, one record for every place a control reference  *)
(* stands, the same control_id as often as it stands there.                *)
C17_RecordsInLineThenOffsetOrder ==
    fn_pc = "called" =>
        LET picked == fn_in.picked
            \* where the references stand in each piece, from its first character
            \* on, and the control_id each one gives
            places == << <<0, 9>>, <<4, 17>>, <<>>, <<0>>, <<>> >>
            ids == << <<<<"A", "C", "-", "2">>, <<"A", "C", "-", "2">>>>, <<<<"S", "C", "-",
                  "7", ".", "a">>, <<"A", "C", "-", "2", "(", "1", ")">>>>, <<>>, <<<<"I", "A",
                  "-", "5">>>>, <<>> >>
            endsLine(k) == k \in {1, 3}
            \* the line a piece starts on and the column it starts at
            lineOf(i) == 1 + Cardinality({j \in 1..(i - 1) : endsLine(picked[j])})
            RECURSIVE colOf(_)
            colOf(i) == IF i = 1 \/ endsLine(picked[i - 1]) THEN 0
                        ELSE colOf(i - 1) + Len(CONTROL_LINES[picked[i - 1]])
            RECURSIVE expected(_)
            expected(i) ==
                IF i > Len(picked) THEN <<>>
                ELSE [k \in 1..Len(places[picked[i]]) |->
                         [id |-> ids[picked[i]][k], line |-> lineOf(i),
                          column |-> colOf(i) + places[picked[i]][k]]]
                     \o expected(i + 1)
        IN  /\ [k \in 1..Len(fn_out) |->
                   [id |-> fn_out[k].control_id, line |-> fn_out[k].source_location.line,
                    column |-> fn_out[k].source_location.column]] = expected(1)
            /\ \A i, j \in 1..Len(fn_out) :
                  i < j =>
                     \/ fn_out[i].source_location.line < fn_out[j].source_location.line
                     \/ /\ fn_out[i].source_location.line = fn_out[j].source_location.line
                        /\ fn_out[i].source_location.column < fn_out[j].source_location.column

(* a document whose first line holds AC-2 twice and whose second line      *)
(* holds further references                                                *)
C17_Witness ==
    /\ fn_pc = "called"
    /\ Len(fn_out) >= 4
    /\ fn_out[1].control_id = fn_out[2].control_id
    /\ fn_out[1].source_location.line = 1
    /\ fn_out[2].source_location.line = 1
    /\ fn_out[3].source_location.line = 2
    /\ fn_out[4].source_location.line = 2

(* C18: the records of a written output are the results of the files put   *)
(* end to end, pandoc's files first, then markitdown's, then docling's,     *)
(* a.md before b.md within a tool, each file's records as its extraction    *)
(* returned them; a tool whose directory is absent is passed over and the   *)
(* run goes on.                                                             *)
C18_RecordsInDiscoveryOrder ==
    /\ pc = "done" =>
          LET order == << <<Pandoc, <<"a", ".", "m", "d">>>>, <<Pandoc, <<"b", ".", "m",
                "d">>>>,
                          <<<<"m", "a", "r", "k", "i", "t", "d", "o", "w", "n">>, <<"a", ".",
                                "m", "d">>>>, <<<<"m", "a", "r", "k", "i", "t", "d", "o", "w",
                                "n">>, <<"b", ".", "m", "d">>>>,
                          <<<<"d", "o", "c", "l", "i", "n", "g">>, <<"a", ".", "m", "d">>>>,
                                <<<<"d", "o", "c", "l", "i", "n", "g">>, <<"b", ".", "m",
                                "d">>>> >>
              resultOf(f) ==
                  CASE script = "extract-controls" -> ControlsTable[f]
                    [] script = "extract-entities" -> EntitiesTable[f]
                    [] script = "extract-metadata" -> <<MetadataTable[f]>>
              at(i) == {f \in tree : f.tool = order[i][1] /\ f.name = order[i][2]}
              RECURSIVE from(_)
              from(i) == IF i > Len(order) THEN <<>>
                         ELSE (IF at(i) = {} THEN <<>> ELSE resultOf(CHOOSE f \in at(i) : TRUE))
                                 \o from(i + 1)
          IN  output.records = from(1)
    /\ (pc = "tools" /\ tool_i \in 1..Len(TOOLS) /\ TOOLS[tool_i] \notin dirs) =>
          /\ ENABLED SkipTool
          /\ \A f \in tree : f.tool \in dirs

(* an output written from the files of two tools, two of them in one       *)
(* directory, while the directory of the third tool is absent              *)
C18_Witness ==
    /\ pc = "done"
    /\ dirs # ToolSet
    /\ Cardinality({f.tool : f \in tree}) = 2
    /\ Cardinality(tree) = 3
    /\ \A f \in tree : f.data # ReadError
    /\ Len(output.records) >= 3

(* C19: in whatever order the files of a tree are extracted and folded in, *)
(* the records of each file are those of its extraction alone, and the     *)
(* summary has the total, the number of distinct controls, the count of    *)
(* every family, tool and document and the consensus list that the run in  *)
(* discovery order gives.                                                  *)
C19_FoldOrderIndependent ==
    fn_pc = "called" =>
        LET order == << <<Pandoc, <<"a", ".", "m", "d">>>>, <<Pandoc, <<"b", ".", "m", "d">>>>,
                        <<<<"m", "a", "r", "k", "i", "t", "d", "o", "w", "n">>, <<"a", ".",
                              "m", "d">>>>, <<<<"m", "a", "r", "k", "i", "t", "d", "o", "w",
                              "n">>, <<"b", ".", "m", "d">>>>,
                        <<<<"d", "o", "c", "l", "i", "n", "g">>, <<"a", ".", "m", "d">>>>,
                              <<<<"d", "o", "c", "l", "i", "n", "g">>, <<"b", ".", "m",
                              "d">>>> >>
            at(i) == {f \in fn_in.tree : f.tool = order[i][1] /\ f.name = order[i][2]}
            RECURSIVE from(_)
            from(i) == IF i > Len(order) THEN <<>>
                       ELSE (IF at(i) = {} THEN <<>>
                             ELSE LET f == CHOOSE f \in at(i) : TRUE
                                  IN  extract_controls_from_file(f, f.tool))
                               \o from(i + 1)
            seq == ControlsSummary(from(1))
            got == fn_out.summary
        IN  /\ \A f \in fn_in.tree :
                  LET ofFile(r) == r.conversion_tool = f.tool /\ r.source_document = f.name
                  IN  SelectSeq(fn_out.controls, ofFile) = extract_controls_from_file(f, f.tool)
            /\ got.total_references = seq.total_references
            /\ got.unique_controls = seq.unique_controls
            /\ SetOf(got.by_family) = SetOf(seq.by_family)
            /\ SetOf(got.by_tool) = SetOf(seq.by_tool)
            /\ SetOf(got.by_document) = SetOf(seq.by_document)
            /\ got.controls_found_by_all_tools = seq.controls_found_by_all_tools

(* the files of three tools folded in with docling's first and pandoc's    *)
(* last, two controls found by all three tools                             *)
C19_Witness ==
    /\ fn_pc = "called"
    /\ Cardinality(fn_in.tree) = 3
    /\ fn_out.controls[1].conversion_tool = <<"d", "o", "c", "l", "i", "n", "g">>
    /\ fn_out.controls[1].source_document = <<"b", ".", "m", "d">>
    /\ fn_out.controls[Len(fn_out.controls)].conversion_tool = Pandoc
    /\ fn_out.controls[Len(fn_out.controls)].source_document = <<"a", ".", "m", "d">>
    /\ Len(fn_out.summary.controls_found_by_all_tools) = 2

(* C20: every entity record holds three sample contexts, or as many as the *)
(* entity has occurrences if these are fewer, and they are the contexts of *)
(* its first matches, the matches taken pattern by pattern in the order of *)
(* the category's list and, for one pattern, as they stand in the text.    *)
C20_SampleContextsAreFirstThree ==
    fn_pc = "called" =>
        \A i \in 1..Len(fn_out) :
            LET r == fn_out[i]
                content == fn_in.text
                patterns ==
                    ENTITY_PATTERNS[CHOOSE t \in 1..Len(ENTITY_PATTERNS) :
                                       ENTITY_PATTERNS[t][1] = r.entity_type][2]
                hit(m) == Normalize(r.entity_type, Group(m, content, 1)) = r.value
                ofPattern(p) ==
                    LET ms == SelectSeq(FindIter(patterns[p], content, Flags(TRUE, FALSE)), hit)
                    IN  [k \in 1..Len(ms) |-> EntityContext(ms[k], content)]
                RECURSIVE from(_)
                from(p) == IF p > Len(patterns) THEN <<>> ELSE ofPattern(p) \o from(p + 1)
                n == IF r.occurrences < 3 THEN r.occurrences ELSE 3
            IN  /\ Len(r.sample_contexts) = n
                /\ n <= Len(from(1))
                /\ r.sample_contexts = SubSeq(from(1), 1, n)

(* a role that stands more than three times in the text and whose fourth   *)
(* context differs from its first three, beside a role that stands once    *)
C20_Witness ==
    /\ fn_pc = "called"
    /\ fn_in.picked = <<3, 2, 1>>
    /\ \E i, j \in 1..Len(fn_out) :
          /\ fn_out[i].occurrences = 5
          /\ Len(fn_out[i].sample_contexts) = 3
          /\ fn_out[j].occurrences = 1
          /\ Len(fn_out[j].sample_contexts) = 1

(* C21: the context_snippet of a record is the part of its line from 50    *)
(* characters before the match, or the start of the line, to 100           *)
(* characters after it, or the end of the line, without the white space at *)
(* its two ends; it holds the matched text and nothing of another line.    *)
C21_ContextSnippetWindow ==
    fn_pc = "called" =>
        LET picked == fn_in.picked
            endsLine(k) == k \in {1, 3}
            lineOf(i) == 1 + Cardinality({j \in 1..(i - 1) : endsLine(picked[j])})
            \* the text of a line: its pieces, without the line break
            RECURSIVE lineText(_, _)
            lineText(l, i) ==
                IF i > Len(picked) THEN <<>>
                ELSE (IF lineOf(i) # l THEN <<>>
                      ELSE IF endsLine(picked[i])
                           THEN SubSeq(CONTROL_LINES[picked[i]], 1,
                                       Len(CONTROL_LINES[picked[i]]) - 1)
                           ELSE CONTROL_LINES[picked[i]])
                     \o lineText(l, i + 1)
            white == {" ", "\t", "\n", "\r"}
        IN  \A k \in 1..Len(fn_out) :
               LET line == lineText(fn_out[k].source_location.line, 1)
                   n == Len(line)
                   s == fn_out[k].source_location.column
                   e == s + Len(fn_out[k].control_id)
                   matched == [i \in 1..(e - s) |-> line[s + i]]
                   lo == IF s - 50 < 0 THEN 0 ELSE s - 50
                   hi == IF e + 100 > n THEN n ELSE e + 100
                   window == [i \in 1..(hi - lo) |-> line[lo + i]]
                   kept == {i \in 1..Len(window) : window[i] \notin white}
                   snippet == fn_out[k].context_snippet
               IN  /\ e <= n
                   /\ Upper(matched) = Upper(fn_out[k].control_id)
                   /\ kept # {}
                   /\ \E a, b \in kept :
                         /\ \A i \in kept : a <= i /\ i <= b
                         /\ snippet = [i \in 1..(b - a + 1) |-> window[a + i - 1]]
                         /\ lo + a - 1 <= s
                         /\ e <= lo + b
                   /\ \E o \in 1..Len(snippet) :
                         /\ o + (e - s) - 1 <= Len(snippet)
                         /\ [i \in 1..(e - s) |-> snippet[o + i - 1]] = matched
                   /\ Len(snippet) <= n
                   /\ \A i \in 1..Len(snippet) : snippet[i] # "\n"

(* a reference with more than 50 characters of its line before it and     *)
(* more than 100 after it, the window starting on a blank                  *)
C21_Witness ==
    /\ fn_pc = "called"
    /\ fn_in.picked = <<5, 2, 5>>
    /\ Len(fn_in.text) = 245
    /\ \E k \in 1..Len(fn_out) :
          /\ fn_out[k].source_location.column = 127
          /\ Len(fn_out[k].context_snippet) = 156

(* C22: in a written control output the total is the number of records,   *)
(* and the counts by family, by tool and by document each add up to it;    *)
(* unique_controls is the number of distinct control_id values of the      *)
(* records, and every control listed as found by all tools is one of them. *)
C22_TalliesConserved ==
    (script = "extract-controls" /\ pc = "done") =>
        LET summary == output.summary
            n == Len(output.records)
            ids == {output.records[i].control_id : i \in 1..n}
            RECURSIVE sum(_, _)
            sum(d, i) == IF i > Len(d) THEN 0 ELSE d[i][2] + sum(d, i + 1)
            distinctKeys(d) == \A i, j \in 1..Len(d) : d[i][1] = d[j][1] => i = j
        IN  /\ summary.total_references = n
            /\ distinctKeys(summary.by_family) /\ sum(summary.by_family, 1) = n
            /\ distinctKeys(summary.by_tool) /\ sum(summary.by_tool, 1) = n
            /\ distinctKeys(summary.by_document) /\ sum(summary.by_document, 1) = n
            /\ summary.unique_controls = Cardinality(ids)
            /\ \A i \in 1..Len(summary.controls_found_by_all_tools) :
                  summary.controls_found_by_all_tools[i] \in ids

(* a control output over two documents and several tools in which a        *)
(* control_id stands more than once and some control is found by all tools *)
C22_Witness ==
    /\ script = "extract-controls"
    /\ pc = "done"
    /\ Len(output.summary.by_document) = 2
    /\ Len(output.summary.by_tool) = 3
    /\ Len(output.summary.by_family) = 2
    /\ output.summary.unique_controls < output.summary.total_references
    /\ Len(output.summary.controls_found_by_all_tools) >= 1

====
